---- MODULE Spec2Model ----
(***************************************************************************)
(* The pipeline conversion engine of CiCLI (package converter) and the     *)
(* file system it writes to.  Text is modelled character by character: a   *)
(* string is a sequence of one-character strings, so that formatting,      *)
(* trimming, substring tests and the decoding of generated text are        *)
(* computed as the code computes them.                                     *)
(***************************************************************************)
EXTENDS Integers, Sequences, FiniteSets, TLC

(***************************************************************************)
(* Package strings / fmt                                                   *)
(***************************************************************************)
RECURSIVE Cat(_)
\* strings.Builder: the concatenation of the pieces written, in order
Cat(ss) == IF ss = <<>> THEN <<>> ELSE Head(ss) \o Cat(Tail(ss))

Sp(n) == [i \in 1..n |-> " "]

NL == <<"\n">>

HasPrefix(s, p) == Len(s) >= Len(p) /\ SubSeq(s, 1, Len(p)) = p

TrimPrefix(s, p) == IF HasPrefix(s, p) THEN SubSeq(s, Len(p) + 1, Len(s)) ELSE s

\* the positions at which sub occurs in s
Occurrences(s, sub) ==
    {i \in 1..(Len(s) - Len(sub) + 1) : SubSeq(s, i, i + Len(sub) - 1) = sub}

Contains(s, sub) == sub = <<>> \/ Occurrences(s, sub) # {}

Min(S) == CHOOSE x \in S : \A y \in S : x <= y

Max(S) == CHOOSE x \in S : \A y \in S : x >= y

\* strings.Trim(s, cutset): leading and trailing characters of cutset removed
Trim(s, cutset) ==
    LET keep == {i \in 1..Len(s) : s[i] \notin cutset}
    IN  IF keep = {} THEN <<>> ELSE SubSeq(s, Min(keep), Max(keep))

WhiteSpace == {" ", "\t", "\n", "\r"}

TrimSpace(s) == Trim(s, WhiteSpace)

RECURSIVE ReplaceAll(_, _, _)
\* strings.ReplaceAll for a non-empty old: non-overlapping, left to right
ReplaceAll(s, old, new) ==
    IF Len(s) < Len(old) THEN s
    ELSE IF HasPrefix(s, old)
         THEN new \o ReplaceAll(SubSeq(s, Len(old) + 1, Len(s)), old, new)
         ELSE <<Head(s)>> \o ReplaceAll(Tail(s), old, new)

UpperCase == <<"A","B","C","D","E","F","G","H","I","J","K","L","M","N","O","P","Q","R","S","T","U","V","W","X","Y","Z">>

LowerCase == <<"a","b","c","d","e","f","g","h","i","j","k","l","m","n","o","p","q","r","s","t","u","v","w","x","y","z">>

ToLower(s) ==
    [i \in 1..Len(s) |->
        IF \E k \in 1..Len(UpperCase) : UpperCase[k] = s[i]
        THEN LowerCase[CHOOSE k \in 1..Len(UpperCase) : UpperCase[k] = s[i]]
        ELSE s[i]]

\* strings.Split(s, "\n")
Split(s, sep) ==
    LET cuts == {i \in 1..Len(s) : s[i] = sep}
        n    == Cardinality(cuts)
        cut(k) == IF k = 0 THEN 0
                  ELSE IF k = n + 1 THEN Len(s) + 1
                  ELSE CHOOSE i \in cuts : Cardinality({j \in cuts : j < i}) = k - 1
    IN  [k \in 1..(n + 1) |-> SubSeq(s, cut(k - 1) + 1, cut(k) - 1)]

(***************************************************************************)
(* The intermediate representation (PipelineConfig, Trigger, Job, Step).   *)
(* Fields that no parser sets and no generator reads (Environment,         *)
(* Services, Artifacts, Cache, Paths, Env, WorkDir) are left out.  With is *)
(* a Go map: a function from key to value, <<>> when empty.                *)
(***************************************************************************)
GitHub == <<"g","i","t","h","u","b">>

GitLab == <<"g","i","t","l","a","b">>

Jenkins == <<"j","e","n","k","i","n","s">>

CircleCI == <<"c","i","r","c","l","e","c","i">>

Azure == <<"a","z","u","r","e">>

Bitbucket == <<"b","i","t","b","u","c","k","e","t">>

Trigger(type, branches, cron) == [Type |-> type, Branches |-> branches, Cron |-> cron]

Step(name, uses, run, with, if) ==
    [Name |-> name, Uses |-> uses, Run |-> run, With |-> with, If |-> if]

Job(name, runsOn, dependsOn, steps, condition) ==
    [Name |-> name, RunsOn |-> runsOn, DependsOn |-> dependsOn,
     Steps |-> steps, Condition |-> condition]

PipelineConfig(name, triggers, jobs) ==
    [Name |-> name, Triggers |-> triggers, Jobs |-> jobs]

(***************************************************************************)
(* Helper functions of the converter                                       *)
(***************************************************************************)
sanitizeName(name) ==
    ToLower(ReplaceAll(ReplaceAll(name, <<" ">>, <<"-">>), <<"_">>, <<"-">>))

convertCondition(condition, target) ==
    IF target = GitHub THEN condition
    ELSE IF target = GitLab THEN ReplaceAll(condition, <<"g","i","t","h","u","b",".">>, <<"$","C","I","_">>)
    ELSE condition

\* step.With[key]: the zero value "" when the key is absent
WithGet(with, key) == IF key \in DOMAIN with THEN with[key] ELSE <<>>

\* C12 mutant: the checkout action is translated like an unknown action
convertActionToCommandOfCheckout(step) ==
    IF Contains(step.Uses, <<"s","e","t","u","p","-","n","o","d","e">>)
    THEN LET v == WithGet(step.With, <<"n","o","d","e","-","v","e","r","s","i","o","n">>)
             version == IF v = <<>> THEN <<"1","8">> ELSE v
         IN  <<"n","v","m"," ","i","n","s","t","a","l","l"," ">> \o version \o <<" ","&","&"," ","n","v","m"," ","u","s","e"," ">> \o version
    ELSE IF Contains(step.Uses, <<"s","e","t","u","p","-","g","o">>)
    THEN <<"#"," ","G","o"," ","s","e","t","u","p"," ","-"," ","c","o","n","f","i","g","u","r","e"," ","i","n"," ","i","m","a","g","e">>
    ELSE IF Contains(step.Uses, <<"s","e","t","u","p","-","p","y","t","h","o","n">>)
    THEN LET v == WithGet(step.With, <<"p","y","t","h","o","n","-","v","e","r","s","i","o","n">>)
             version == IF v = <<>> THEN <<"3",".","1","1">> ELSE v
         IN  <<"p","y","e","n","v"," ","i","n","s","t","a","l","l"," ">> \o version \o <<" ","&","&"," ","p","y","e","n","v"," ","g","l","o","b","a","l"," ">> \o version
    ELSE <<"#"," ","A","c","t","i","o","n",":"," ">> \o step.Uses \o <<" ","(","m","a","n","u","a","l"," ","c","o","n","v","e","r","s","i","o","n"," ","n","e","e","d","e","d",")">>

convertActionToCommand(step) ==
    IF Contains(step.Uses, <<"c","h","e","c","k","o","u","t">>) THEN <<>>
    ELSE IF Contains(step.Uses, <<"s","e","t","u","p","-","n","o","d","e">>)
    THEN LET v == WithGet(step.With, <<"n","o","d","e","-","v","e","r","s","i","o","n">>)
             version == IF v = <<>> THEN <<"1","8">> ELSE v
         IN  <<"n","v","m"," ","i","n","s","t","a","l","l"," ">> \o version \o <<" ","&","&"," ","n","v","m"," ","u","s","e"," ">> \o version
    ELSE IF Contains(step.Uses, <<"s","e","t","u","p","-","g","o">>)
    THEN <<"#"," ","G","o"," ","s","e","t","u","p"," ","-"," ","c","o","n","f","i","g","u","r","e"," ","i","n"," ","i","m","a","g","e">>
    ELSE IF Contains(step.Uses, <<"s","e","t","u","p","-","p","y","t","h","o","n">>)
    THEN LET v == WithGet(step.With, <<"p","y","t","h","o","n","-","v","e","r","s","i","o","n">>)
             version == IF v = <<>> THEN <<"3",".","1","1">> ELSE v
         IN  <<"p","y","e","n","v"," ","i","n","s","t","a","l","l"," ">> \o version \o <<" ","&","&"," ","p","y","e","n","v"," ","g","l","o","b","a","l"," ">> \o version
    ELSE <<"#"," ","A","c","t","i","o","n",":"," ">> \o step.Uses \o <<" ","(","m","a","n","u","a","l"," ","c","o","n","v","e","r","s","i","o","n"," ","n","e","e","d","e","d",")">>

escapeJenkinsString(s) == ReplaceAll(s, <<"'">>, <<"\\","'">>)

GetSupportedPlatforms == <<GitHub, GitLab, Jenkins, CircleCI, Azure, Bitbucket>>

(***************************************************************************)
(* Generators.  Each returns the text written to the strings.Builder.     *)
(* ord is the order in which `range step.With` visits the keys of a Go     *)
(* map: a sequence holding every key once, chosen by the caller.           *)
(***************************************************************************)
RangeWith(with, ord) == SelectSeq(ord, LAMBDA k : k \in DOMAIN with)

\* the entries of a list, one on a line after item
\* C13 mutant: the names are written last first
ListItemsReversed(item, names) ==
    Cat([idx \in 1..Len(names) |-> item \o names[Len(names) + 1 - idx] \o NL])

ListItems(item, names) == Cat([idx \in 1..Len(names) |-> item \o names[idx] \o NL])

\* generateGitHub: the inputs of an action, in the order the map is ranged over
WithItems(with, keys) ==
    Cat([idx \in 1..Len(keys) |-> <<" "," "," "," "," "," "," "," "," "," ">> \o keys[idx] \o <<":"," ">> \o with[keys[idx]] \o NL])

\* generateGitHub: one trigger of the `on:` block
GitHubTrigger(trigger) ==
    LET branches(bs) ==
            IF Len(bs) > 0
            THEN <<" "," "," "," ","b","r","a","n","c","h","e","s",":","\n">>
                 \o ListItems(<<" "," "," "," "," "," ","-"," ">>, bs)
            ELSE <<>>
    IN  IF trigger.Type = <<"p","u","s","h">>
        THEN <<" "," ","p","u","s","h",":","\n">> \o branches(trigger.Branches)
        ELSE IF trigger.Type = <<"p","u","l","l","_","r","e","q","u","e","s","t">>
        THEN <<" "," ","p","u","l","l","_","r","e","q","u","e","s","t",":","\n">> \o branches(trigger.Branches)
        ELSE IF trigger.Type = <<"s","c","h","e","d","u","l","e">>
        THEN <<" "," ","s","c","h","e","d","u","l","e",":","\n">> \o <<" "," "," "," ","-"," ","c","r","o","n",":"," ","'">> \o trigger.Cron \o <<"'","\n">>
        ELSE <<>>

\* generateGitHub: one step of a job
GitHubStep(step, ord) ==
    (IF step.Name # <<>>
     THEN <<" "," "," "," "," "," ","-"," ","n","a","m","e",":"," ">> \o step.Name \o NL
     ELSE <<" "," "," "," "," "," ","-">>)
    \o
    (IF step.Uses # <<>>
     THEN (IF step.Name # <<>>
           THEN <<" "," "," "," "," "," "," "," ","u","s","e","s",":"," ">> \o step.Uses \o NL
           ELSE <<" ","u","s","e","s",":"," ">> \o step.Uses \o NL)
          \o
          (IF DOMAIN step.With # {}
           THEN <<" "," "," "," "," "," "," "," ","w","i","t","h",":","\n">>
                \o WithItems(step.With, RangeWith(step.With, ord))
           ELSE <<>>)
     ELSE IF step.Run # <<>>
     THEN (IF step.Name # <<>>
           THEN <<" "," "," "," "," "," "," "," ","r","u","n",":"," ">> \o step.Run \o NL
           ELSE <<" ","r","u","n",":"," ">> \o step.Run \o NL)
     ELSE <<>>)
    \o
    (IF step.If # <<>> THEN <<" "," "," "," "," "," "," "," ","i","f",":"," ">> \o step.If \o NL ELSE <<>>)

\* generateGitHub: one job, given whether a step of it has `checkout` in uses
GitHubJobText(job, ord, hasCheckout) ==
    <<" "," ">> \o sanitizeName(job.Name) \o <<":","\n">>
    \o <<" "," "," "," ","r","u","n","s","-","o","n",":"," ">> \o job.RunsOn \o NL
    \o (IF Len(job.DependsOn) > 0
        THEN <<" "," "," "," ","n","e","e","d","s",":","\n">>
             \o ListItems(<<" "," "," "," "," "," ","-"," ">>, job.DependsOn)
        ELSE <<>>)
    \o (IF job.Condition # <<>>
        THEN <<" "," "," "," ","i","f",":"," ">> \o convertCondition(job.Condition, GitHub) \o NL
        ELSE <<>>)
    \o <<" "," "," "," ","s","t","e","p","s",":","\n">>
    \o (IF ~hasCheckout THEN <<" "," "," "," "," "," ","-"," ","u","s","e","s",":"," ","a","c","t","i","o","n","s","/","c","h","e","c","k","o","u","t","@","v","4","\n">> ELSE <<>>)
    \o Cat([idx \in 1..Len(job.Steps) |-> GitHubStep(job.Steps[idx], ord)])

\* C3 mutant: the checkout step is added whether or not the job has one
GitHubJobAlwaysChecksOut(job, ord) == GitHubJobText(job, ord, FALSE)

\* generateGitHub: one job
GitHubJob(job, ord) ==
    GitHubJobText(job, ord,
                  \E i \in 1..Len(job.Steps) : Contains(job.Steps[i].Uses, <<"c","h","e","c","k","o","u","t">>))

generateGitHub(config, ord) ==
    <<"n","a","m","e",":"," ">> \o config.Name \o <<"\n","\n">>
    \o <<"o","n",":","\n">>
    \o Cat([idx \in 1..Len(config.Triggers) |-> GitHubTrigger(config.Triggers[idx])])
    \o <<"\n","j","o","b","s",":","\n">>
    \o Cat([idx \in 1..Len(config.Jobs) |-> GitHubJob(config.Jobs[idx], ord)])

\* generateGitLab: one job block
GitLabJob(job) ==
    LET script(step) ==
            IF step.Run # <<>> THEN <<" "," "," "," ","-"," ">> \o step.Run \o NL
            ELSE IF step.Uses # <<>>
            THEN LET cmd == convertActionToCommand(step)
                 IN  IF cmd # <<>> THEN <<" "," "," "," ","-"," ">> \o cmd \o NL ELSE <<>>
            ELSE <<>>
    IN  sanitizeName(job.Name) \o <<":","\n">>
        \o <<" "," ","s","t","a","g","e",":"," ">> \o sanitizeName(job.Name) \o NL
        \o (IF Len(job.DependsOn) > 0
            THEN <<" "," ","n","e","e","d","s",":","\n">>
                 \o ListItems(<<" "," "," "," ","-"," ">>, job.DependsOn)
            ELSE <<>>)
        \o (IF job.Condition # <<>>
            THEN <<" "," ","r","u","l","e","s",":","\n">>
                 \o <<" "," "," "," ","-"," ","i","f",":"," ">> \o convertCondition(job.Condition, GitLab) \o NL
            ELSE <<>>)
        \o <<" "," ","s","c","r","i","p","t",":","\n">>
        \o Cat([idx \in 1..Len(job.Steps) |-> script(job.Steps[idx])])
        \o NL

\* generateGitLab: one entry of the stages list
GitLabStage(job) == <<" "," ","-"," ">> \o sanitizeName(job.Name) \o NL

Reverse(s) == [i \in 1..Len(s) |-> s[Len(s) + 1 - i]]

\* C5 mutant: the stages are listed last job first
generateGitLabStagesReversed(config) ==
    <<"s","t","a","g","e","s",":","\n">>
    \o Cat([idx \in 1..Len(config.Jobs) |-> GitLabStage(Reverse(config.Jobs)[idx])])
    \o NL
    \o Cat([idx \in 1..Len(config.Jobs) |-> GitLabJob(config.Jobs[idx])])

generateGitLab(config) ==
    <<"s","t","a","g","e","s",":","\n">>
    \o Cat([idx \in 1..Len(config.Jobs) |-> GitLabStage(config.Jobs[idx])])
    \o NL
    \o Cat([idx \in 1..Len(config.Jobs) |-> GitLabJob(config.Jobs[idx])])

\* generateCircleCI: one entry of the jobs block
CircleCIJob(job) ==
    LET run(step) ==
            IF step.Run # <<>>
            THEN <<" "," "," "," "," "," ","-"," ","r","u","n",":","\n">>
                 \o (IF step.Name # <<>>
                     THEN <<" "," "," "," "," "," "," "," "," "," ","n","a","m","e",":"," ">> \o step.Name \o NL
                     ELSE <<>>)
                 \o <<" "," "," "," "," "," "," "," "," "," ","c","o","m","m","a","n","d",":"," ">> \o step.Run \o NL
            ELSE <<>>
    IN  <<" "," ">> \o sanitizeName(job.Name) \o <<":","\n">>
        \o <<" "," "," "," ","d","o","c","k","e","r",":","\n">>
        \o <<" "," "," "," "," "," ","-"," ","i","m","a","g","e",":"," ","c","i","m","g","/","b","a","s","e",":","s","t","a","b","l","e","\n">>
        \o <<" "," "," "," ","s","t","e","p","s",":","\n">>
        \o <<" "," "," "," "," "," ","-"," ","c","h","e","c","k","o","u","t","\n">>
        \o Cat([idx \in 1..Len(job.Steps) |-> run(job.Steps[idx])])

\* generateCircleCI: one entry of the workflow's job list
CircleCIWorkflowJob(job) ==
    IF Len(job.DependsOn) > 0
    THEN <<" "," "," "," "," "," ","-"," ">> \o sanitizeName(job.Name) \o <<":","\n">>
         \o <<" "," "," "," "," "," "," "," "," "," ","r","e","q","u","i","r","e","s",":","\n">>
         \o ListItems(<<" "," "," "," "," "," "," "," "," "," "," "," ","-"," ">>, job.DependsOn)
    ELSE <<" "," "," "," "," "," ","-"," ">> \o sanitizeName(job.Name) \o NL

generateCircleCI(config) ==
    <<"v","e","r","s","i","o","n",":"," ","2",".","1","\n","\n">>
    \o <<"j","o","b","s",":","\n">>
    \o Cat([idx \in 1..Len(config.Jobs) |-> CircleCIJob(config.Jobs[idx])])
    \o <<"\n","w","o","r","k","f","l","o","w","s",":","\n">>
    \o <<" "," ">> \o sanitizeName(config.Name) \o <<":","\n">>
    \o <<" "," "," "," ","j","o","b","s",":","\n">>
    \o Cat([idx \in 1..Len(config.Jobs) |-> CircleCIWorkflowJob(config.Jobs[idx])])

\* generateAzure: one stage and job pair
AzureJob(job) ==
    LET script(step) ==
            IF step.Run # <<>>
            THEN <<" "," "," "," "," "," "," "," "," "," ","-"," ","s","c","r","i","p","t",":"," ","|","\n">>
                 \o <<" "," "," "," "," "," "," "," "," "," "," "," "," "," ">> \o step.Run \o NL
                 \o (IF step.Name # <<>>
                     THEN <<" "," "," "," "," "," "," "," "," "," "," "," ","d","i","s","p","l","a","y","N","a","m","e",":"," ","'">> \o step.Name \o <<"'","\n">>
                     ELSE <<>>)
            ELSE <<>>
    IN  <<" "," ","-"," ","s","t","a","g","e",":"," ">> \o sanitizeName(job.Name) \o NL
        \o <<" "," "," "," ","j","o","b","s",":","\n">>
        \o <<" "," "," "," "," "," ","-"," ","j","o","b",":"," ">> \o sanitizeName(job.Name) \o NL
        \o (IF Len(job.DependsOn) > 0
            THEN <<" "," "," "," "," "," "," "," ","d","e","p","e","n","d","s","O","n",":","\n">>
                 \o ListItems(<<" "," "," "," "," "," "," "," "," "," ","-"," ">>, job.DependsOn)
            ELSE <<>>)
        \o <<" "," "," "," "," "," "," "," ","s","t","e","p","s",":","\n">>
        \o <<" "," "," "," "," "," "," "," "," "," ","-"," ","c","h","e","c","k","o","u","t",":"," ","s","e","l","f","\n">>
        \o Cat([idx \in 1..Len(job.Steps) |-> script(job.Steps[idx])])

generateAzure(config) ==
    LET trigger(t) ==
            IF t.Type = <<"p","u","s","h">> /\ Len(t.Branches) > 0
            THEN <<" "," ","b","r","a","n","c","h","e","s",":","\n">>
                 \o <<" "," "," "," ","i","n","c","l","u","d","e",":","\n">>
                 \o ListItems(<<" "," "," "," "," "," ","-"," ">>, t.Branches)
            ELSE <<>>
    IN  <<"n","a","m","e",":"," ">> \o config.Name \o <<"\n","\n">>
        \o <<"t","r","i","g","g","e","r",":","\n">>
        \o Cat([idx \in 1..Len(config.Triggers) |-> trigger(config.Triggers[idx])])
        \o <<"\n","p","o","o","l",":","\n">>
        \o <<" "," ","v","m","I","m","a","g","e",":"," ","'","u","b","u","n","t","u","-","l","a","t","e","s","t","'","\n","\n">>
        \o <<"s","t","a","g","e","s",":","\n">>
        \o Cat([idx \in 1..Len(config.Jobs) |-> AzureJob(config.Jobs[idx])])

\* generateJenkins: one stage
JenkinsStage(job) ==
    LET sh(step) ==
            IF step.Run # <<>>
            THEN <<" "," "," "," "," "," "," "," "," "," "," "," "," "," "," "," ","s","h"," ","'">> \o escapeJenkinsString(step.Run) \o <<"'","\n">>
            ELSE <<>>
    IN  <<" "," "," "," "," "," "," "," ","s","t","a","g","e","(","'">> \o job.Name \o <<"'",")"," ","{","\n">>
        \o <<" "," "," "," "," "," "," "," "," "," "," "," ","s","t","e","p","s"," ","{","\n">>
        \o Cat([idx \in 1..Len(job.Steps) |-> sh(job.Steps[idx])])
        \o <<" "," "," "," "," "," "," "," "," "," "," "," ","}","\n">>
        \o <<" "," "," "," "," "," "," "," ","}","\n">>

generateJenkins(config) ==
    <<"p","i","p","e","l","i","n","e"," ","{","\n">>
    \o <<" "," "," "," ","a","g","e","n","t"," ","a","n","y","\n","\n">>
    \o <<" "," "," "," ","s","t","a","g","e","s"," ","{","\n">>
    \o Cat([idx \in 1..Len(config.Jobs) |-> JenkinsStage(config.Jobs[idx])])
    \o <<" "," "," "," ","}","\n">>
    \o <<"}","\n">>

\* Converter.Generate: the text and the error ("" when none)
Generate(platform, config, ord) ==
    IF platform = GitHub THEN [text |-> generateGitHub(config, ord), err |-> "none"]
    ELSE IF platform = GitLab THEN [text |-> generateGitLab(config), err |-> "none"]
    ELSE IF platform = CircleCI THEN [text |-> generateCircleCI(config), err |-> "none"]
    ELSE IF platform = Azure THEN [text |-> generateAzure(config), err |-> "none"]
    ELSE IF platform = Jenkins THEN [text |-> generateJenkins(config), err |-> "none"]
    ELSE [text |-> <<>>, err |-> "unsupported target platform"]

(***************************************************************************)
(* yaml.Unmarshal(content, &map[string]interface{}) for the block syntax   *)
(* the generators emit: block mappings `key: value`, block sequences       *)
(* `- item` (also nested on one line), plain and single-quoted one-line    *)
(* scalars, comments.  A line is scanned into elements that carry their    *)
(* column; the block structure follows from the columns alone, as in the   *)
(* YAML scanner's indentation stack.  A document tree node is              *)
(*   [t |-> "map", kv |-> <<[key, val], ...>>]   (in document order)       *)
(*   [t |-> "seq", items |-> <<node, ...>>]                                *)
(*   [t |-> "str" | "num" | "bool" | "null", v |-> text]                   *)
(***************************************************************************)
Digits == {"0", "1", "2", "3", "4", "5", "6", "7", "8", "9"}

NullNode == [t |-> "null", v |-> <<>>]

AbsentNode == [t |-> "absent", v |-> <<>>]

\* the resolution of a one-line scalar to its Go value
ScalarNode(s) ==
    IF s = <<>> \/ s = <<"~">> \/ s = <<"n","u","l","l">> THEN NullNode
    ELSE IF Len(s) >= 2 /\ s[1] = "'" /\ s[Len(s)] = "'"
    THEN [t |-> "str", v |-> ReplaceAll(SubSeq(s, 2, Len(s) - 1), <<"'","'">>, <<"'">>)]
    ELSE IF s \in {<<"t","r","u","e">>, <<"f","a","l","s","e">>} THEN [t |-> "bool", v |-> s]
    ELSE IF /\ \A i \in 1..Len(s) : s[i] \in Digits \cup {"."}
            /\ Cardinality({i \in 1..Len(s) : s[i] = "."}) <= 1
            /\ \E i \in 1..Len(s) : s[i] \in Digits
    THEN [t |-> "num", v |-> s]
    ELSE [t |-> "str", v |-> s]

\* a scalar the decoder of this model does not cover: flow collections,
\* double quotes, block scalars, anchors, tags, an unclosed quote, a
\* mapping inside a value
UnsupportedScalar(s) ==
    /\ s # <<>>
    /\ \/ s[1] \in {"[", "{", "\"", "|", ">", "&", "*", "!", "%"}
       \/ s[1] = "'" /\ (Len(s) < 2 \/ s[Len(s)] # "'")
       \/ Contains(s, <<":"," ">>)
       \/ Contains(s, <<" ","#">>)
       \/ s[Len(s)] = ":"
       \/ "\t" \in {s[i] : i \in 1..Len(s)}

Element(k, col, key, has, val) ==
    [k |-> k, col |-> col, key |-> key, has |-> has, val |-> val]

RECURSIVE ScanFrom(_, _)
\* the elements of a line from position p on: "dash" for a `-` indicator,
\* "key" for `key:` with its inline value if any, "block" for `key: |`,
\* "scalar", or "bad" for what this decoder does not cover
ScanFrom(line, p) ==
    LET rest == {i \in p..Len(line) : line[i] # " "}
    IN  IF rest = {} THEN <<>>
        ELSE
        LET b == Min(rest)
            e == Max(rest)
            colons == {i \in b..e : line[i] = ":" /\ (i = e \/ line[i + 1] = " ")}
        IN  IF line[b] = "#" THEN <<>>
            ELSE IF line[b] = "-" /\ (b = e \/ line[b + 1] = " ")
            THEN <<Element("dash", b - 1, <<>>, FALSE, NullNode)>> \o ScanFrom(line, b + 1)
            ELSE IF colons = {}
            THEN LET s == SubSeq(line, b, e)
                 IN  <<Element(IF UnsupportedScalar(s) THEN "bad" ELSE "scalar",
                               b - 1, <<>>, TRUE, ScalarNode(s))>>
            ELSE LET c == Min(colons)
                     key == SubSeq(line, b, c - 1)
                     val == TrimSpace(SubSeq(line, c + 1, e))
                 IN  <<Element(IF val = <<"|">> /\ key # <<>> /\ ~UnsupportedScalar(key)
                               THEN "block"
                               ELSE IF key = <<>> \/ UnsupportedScalar(key)
                                       \/ UnsupportedScalar(val)
                               THEN "bad" ELSE "key",
                               b - 1, key, ScalarNode(val).t # "null", ScalarNode(val))>>

Indent(line) ==
    IF \A i \in 1..Len(line) : line[i] = " " THEN Len(line)
    ELSE Min({i \in 1..Len(line) : line[i] # " "}) - 1

\* the elements of the document, given the elements el[j] of each line
\* scanned alone: the lines below a `key: |` that are blank or indented
\* deeper than the key are the text of its literal block scalar and
\* contribute no element
ScanBlocks(lines, el) ==
    LET n == Len(lines)
        opens(j) == el[j] # <<>> /\ el[j][Len(el[j])].k = "block"
        within(j, i) ==
            /\ j < i
            /\ opens(j)
            /\ \A k \in (j + 1)..i :
                   lines[k] = Sp(Len(lines[k])) \/ Indent(lines[k]) > el[j][Len(el[j])].col
        body(j) ==
            LET ks == {k \in 1..n : within(j, k)}
            IN  Cat([k \in 1..Cardinality(ks) |->
                        SubSeq(lines[j + k], Indent(lines[j + 1]) + 1, Len(lines[j + k]))
                        \o NL])
        lineElements(j) ==
            IF \E i \in 1..n : within(i, j) THEN <<>>
            ELSE IF opens(j)
            THEN SubSeq(el[j], 1, Len(el[j]) - 1)
                 \o <<Element("key", el[j][Len(el[j])].col, el[j][Len(el[j])].key, TRUE,
                              [t |-> "str", v |-> body(j)])>>
            ELSE el[j]
    IN  Cat([j \in 1..n |-> lineElements(j)])

ScanLines(lines) == ScanBlocks(lines, [j \in 1..Len(lines) |-> ScanFrom(lines[j], 1)])

\* the scanner: the elements of every line, in order
Scan(content) == ScanLines(Split(content, "\n"))

Parsed(ok, node, next) == [ok |-> ok, node |-> node, next |-> next]

Failed == Parsed(FALSE, NullNode, 0)

\* C23 mutant: a key that is defined twice is let through
UniqueKeysUnchecked(kv) == TRUE

UniqueKeys(kv) == \A i, j \in 1..Len(kv) : kv[i].key = kv[j].key => i = j

RECURSIVE ParseNode(_, _, _)
RECURSIVE ParseSequence(_, _, _, _)
RECURSIVE ParseMapping(_, _, _, _)

\* the node that starts at element i, for a parent at column p: null when
\* nothing more indented than the parent follows
ParseNode(E, i, p) ==
    IF i > Len(E) \/ E[i].col <= p THEN Parsed(TRUE, NullNode, i)
    ELSE IF E[i].k = "dash" THEN ParseSequence(E, i, E[i].col, <<>>)
    ELSE IF E[i].k = "key" THEN ParseMapping(E, i, E[i].col, <<>>)
    ELSE IF E[i].k = "scalar"
    THEN IF i + 1 <= Len(E) /\ E[i + 1].col > p
         THEN Failed   \* text continues below a one-line scalar
         ELSE Parsed(TRUE, E[i].val, i + 1)
    ELSE Failed

\* a block sequence at column c whose next `-` is element i
ParseSequence(E, i, c, acc) ==
    LET r == ParseNode(E, i + 1, c)
        items == Append(acc, r.node)
        j == r.next
    IN  IF ~r.ok THEN Failed
        ELSE IF j > Len(E) \/ E[j].col < c
        THEN Parsed(TRUE, [t |-> "seq", items |-> items], j)
        ELSE IF E[j].col = c /\ E[j].k = "dash" THEN ParseSequence(E, j, c, items)
        ELSE Failed   \* did not find expected '-' indicator

\* a block mapping at column c whose next key is element i
ParseMapping(E, i, c, acc) ==
    LET r == IF E[i].has
             THEN IF i + 1 <= Len(E) /\ E[i + 1].col > c
                  THEN Failed
                  ELSE Parsed(TRUE, E[i].val, i + 1)
             ELSE ParseNode(E, i + 1, c)
        kv == Append(acc, [key |-> E[i].key, val |-> r.node])
        j == r.next
    IN  IF ~r.ok THEN Failed
        ELSE IF j > Len(E) \/ E[j].col < c
        THEN IF UniqueKeys(kv)
             THEN Parsed(TRUE, [t |-> "map", kv |-> kv], j)
             ELSE Failed   \* mapping key already defined
        ELSE IF E[j].col = c /\ E[j].k = "key" THEN ParseMapping(E, j, c, kv)
        ELSE Failed   \* did not find expected key

EmptyMap == [t |-> "map", kv |-> <<>>]

\* the document as a map[string]interface{}: an empty document leaves the
\* map nil, a root that is no mapping is an error
Root(E, r) ==
    IF ~r.ok \/ r.next <= Len(E) THEN [ok |-> FALSE, node |-> EmptyMap]
    ELSE IF r.node.t = "null" THEN [ok |-> TRUE, node |-> EmptyMap]
    ELSE IF r.node.t = "map" THEN [ok |-> TRUE, node |-> r.node]
    ELSE [ok |-> FALSE, node |-> EmptyMap]

Compose(E) == Root(E, ParseNode(E, 1, 0 - 1))

\* yaml.Unmarshal into a map[string]interface{}: the map, or an error
Unmarshal(content) == Compose(Scan(content))

\* m[key] of a map[string]interface{} with a following type assertion in
\* mind: the value, or AbsentNode
MapGet(m, key) ==
    IF m.t = "map" /\ \E i \in 1..Len(m.kv) : m.kv[i].key = key
    THEN m.kv[CHOOSE i \in 1..Len(m.kv) : m.kv[i].key = key].val
    ELSE AbsentNode

IsMap(n) == n.t = "map"

IsSlice(n) == n.t = "seq"

IsString(n) == n.t = "str"

Items(n) == IF IsSlice(n) THEN n.items ELSE <<>>

\* fmt.Sprint of a decoded scalar
Sprint(n) ==
    IF n.t = "null" THEN <<"<","n","i","l",">">>
    ELSE IF n.t \in {"str", "num", "bool"} THEN n.v
    ELSE <<"m","a","p","[","]">>

getString(m, key) == IF IsString(MapGet(m, key)) THEN MapGet(m, key).v ELSE <<>>

\* the entries of a Go map in the order a `range` visits them: ord is a
\* permutation of 1..Len(kv), chosen by the caller
MapRange(kv, ord) == [i \in 1..Len(kv) |-> kv[ord[i]]]

Perms(n) == {s \in [1..n -> 1..n] : \A i, j \in 1..n : s[i] = s[j] => i = j}

(***************************************************************************)
(* Parsers.  Each returns [config, isNil, err]: isNil says that the        *)
(* *PipelineConfig returned is nil.  ord is the order in which `range`     *)
(* visits the entries of the Go map the parser iterates.                   *)
(***************************************************************************)
NilConfig == PipelineConfig(<<>>, <<>>, <<>>)

ParseResult(config, isNil, err) == [config |-> config, isNil |-> isNil, err |-> err]

SprintAll(n) == [i \in 1..Len(Items(n)) |-> Sprint(Items(n)[i])]

\* the Go map built from a decoded `with` mapping
WithOf(n) ==
    IF IsMap(n) /\ n.kv # <<>>
    THEN [k \in {n.kv[i].key : i \in 1..Len(n.kv)} |-> Sprint(MapGet(n, k))]
    ELSE <<>>

\* parseGitHub: the push or pull_request trigger, if its value is a mapping
GitHubTriggerOf(on, type) ==
    IF IsMap(MapGet(on, type))
    THEN <<Trigger(type, SprintAll(MapGet(MapGet(on, type), <<"b","r","a","n","c","h","e","s">>)), <<>>)>>
    ELSE <<>>

\* C24 mutant: run is read only when the step names no action
GitHubStepsOfEither(jd) ==
    LET steps == SelectSeq(Items(MapGet(jd, <<"s","t","e","p","s">>)), IsMap)
    IN  [i \in 1..Len(steps) |->
            Step(getString(steps[i], <<"n","a","m","e">>), getString(steps[i], <<"u","s","e","s">>),
                 IF getString(steps[i], <<"u","s","e","s">>) # <<>> THEN <<>>
                 ELSE getString(steps[i], <<"r","u","n">>),
                 WithOf(MapGet(steps[i], <<"w","i","t","h">>)),
                 getString(steps[i], <<"i","f">>))]

\* parseGitHub: the steps that are mappings, in order
GitHubStepsOf(jd) ==
    LET steps == SelectSeq(Items(MapGet(jd, <<"s","t","e","p","s">>)), IsMap)
    IN  [i \in 1..Len(steps) |->
            Step(getString(steps[i], <<"n","a","m","e">>), getString(steps[i], <<"u","s","e","s">>),
                 getString(steps[i], <<"r","u","n">>), WithOf(MapGet(steps[i], <<"w","i","t","h">>)),
                 getString(steps[i], <<"i","f">>))]

\* parseGitHub: the configuration read from the decoded workflow
GitHubPipeline(gh, ord) ==
    LET on == MapGet(gh, <<"o","n">>)
        jobs == MapGet(gh, <<"j","o","b","s">>)
        entries == IF IsMap(jobs)
                   THEN SelectSeq(MapRange(jobs.kv, ord), LAMBDA e : IsMap(e.val))
                   ELSE <<>>
    IN  ParseResult(
                PipelineConfig(
                    getString(gh, <<"n","a","m","e">>),
                    GitHubTriggerOf(on, <<"p","u","s","h">>) \o GitHubTriggerOf(on, <<"p","u","l","l","_","r","e","q","u","e","s","t">>),
                    [i \in 1..Len(entries) |->
                        Job(entries[i].key,
                            getString(entries[i].val, <<"r","u","n","s","-","o","n">>),
                            SprintAll(MapGet(entries[i].val, <<"n","e","e","d","s">>)),
                            GitHubStepsOf(entries[i].val),
                            <<>>)]),
                FALSE, "none")

\* C8 mutant: the error of yaml.Unmarshal is not checked
GitHubConfigUnchecked(u, ord) == GitHubPipeline(u.node, ord)

\* parseGitHub once yaml.Unmarshal has returned u
GitHubConfig(u, ord) ==
    IF ~u.ok THEN ParseResult(NilConfig, TRUE, "yaml") ELSE GitHubPipeline(u.node, ord)

parseGitHub(content, ord) == GitHubConfig(Unmarshal(content), ord)

\* parseGitLab: the first rules[].if that is a string
GitLabCondition(jd) ==
    LET rules == Items(MapGet(jd, <<"r","u","l","e","s">>))
        hits == {i \in 1..Len(rules) : IsMap(rules[i]) /\ IsString(MapGet(rules[i], <<"i","f">>))}
    IN  IF hits = {} THEN <<>> ELSE MapGet(rules[Min(hits)], <<"i","f">>).v

\* C16 mutant: `variables` is not skipped
GitLabReservedButVariables == {<<"s","t","a","g","e","s">>, <<"i","m","a","g","e">>, <<"d","e","f","a","u","l","t">>}

GitLabReserved == {<<"s","t","a","g","e","s">>, <<"v","a","r","i","a","b","l","e","s">>, <<"i","m","a","g","e">>, <<"d","e","f","a","u","l","t">>}

GitLabConfig(u, ord) ==
    LET gl == u.node
        entries == SelectSeq(MapRange(gl.kv, ord),
                             LAMBDA e : e.key \notin GitLabReserved /\ IsMap(e.val))
    IN  IF ~u.ok THEN ParseResult(NilConfig, TRUE, "yaml")
        ELSE ParseResult(
                PipelineConfig(
                    <<"P","i","p","e","l","i","n","e">>,
                    <<Trigger(<<"p","u","s","h">>, <<<<"m","a","i","n">>>>, <<>>)>>,
                    [i \in 1..Len(entries) |->
                        Job(entries[i].key,
                            <<"u","b","u","n","t","u","-","l","a","t","e","s","t">>,
                            SprintAll(MapGet(entries[i].val, <<"n","e","e","d","s">>)),
                            LET script == SprintAll(MapGet(entries[i].val, <<"s","c","r","i","p","t">>))
                            IN  [k \in 1..Len(script) |->
                                    Step(<<>>, <<>>, script[k], <<>>, <<>>)],
                            GitLabCondition(entries[i].val))]),
                FALSE, "none")

parseGitLab(content, ord) == GitLabConfig(Unmarshal(content), ord)

\* parseCircleCI: the image of the first docker executor, else the default
CircleCIRunsOn(jd) ==
    LET docker == Items(MapGet(jd, <<"d","o","c","k","e","r">>))
    IN  IF Len(docker) > 0 /\ IsMap(docker[1]) /\ IsString(MapGet(docker[1], <<"i","m","a","g","e">>))
        THEN MapGet(docker[1], <<"i","m","a","g","e">>).v
        ELSE <<"u","b","u","n","t","u","-","l","a","t","e","s","t">>

\* C17 mutant: the steps are collected last step first
CircleCIStepsOfReversed(jd) ==
    LET step(s) ==
            IF IsString(s)
            THEN IF s.v = <<"c","h","e","c","k","o","u","t">>
                 THEN <<Step(<<"C","h","e","c","k","o","u","t">>, <<"a","c","t","i","o","n","s","/","c","h","e","c","k","o","u","t","@","v","4">>, <<>>, <<>>, <<>>)>>
                 ELSE <<>>
            ELSE IF IsMap(s) /\ IsMap(MapGet(s, <<"r","u","n">>))
            THEN <<Step(getString(MapGet(s, <<"r","u","n">>), <<"n","a","m","e">>), <<>>,
                        getString(MapGet(s, <<"r","u","n">>), <<"c","o","m","m","a","n","d">>), <<>>, <<>>)>>
            ELSE <<>>
    IN  Cat([idx \in 1..Len(Items(MapGet(jd, <<"s","t","e","p","s">>))) |->
                step(Items(MapGet(jd, <<"s","t","e","p","s">>))[Len(Items(MapGet(jd, <<"s","t","e","p","s">>))) + 1 - idx])])

\* parseCircleCI: the `checkout` tokens and the `run` blocks, in order
CircleCIStepsOf(jd) ==
    LET step(s) ==
            IF IsString(s)
            THEN IF s.v = <<"c","h","e","c","k","o","u","t">>
                 THEN <<Step(<<"C","h","e","c","k","o","u","t">>, <<"a","c","t","i","o","n","s","/","c","h","e","c","k","o","u","t","@","v","4">>, <<>>, <<>>, <<>>)>>
                 ELSE <<>>
            ELSE IF IsMap(s) /\ IsMap(MapGet(s, <<"r","u","n">>))
            THEN <<Step(getString(MapGet(s, <<"r","u","n">>), <<"n","a","m","e">>), <<>>,
                        getString(MapGet(s, <<"r","u","n">>), <<"c","o","m","m","a","n","d">>), <<>>, <<>>)>>
            ELSE <<>>
    IN  Cat([idx \in 1..Len(Items(MapGet(jd, <<"s","t","e","p","s">>))) |->
                step(Items(MapGet(jd, <<"s","t","e","p","s">>))[idx])])

CircleCIConfig(u, ord) ==
    LET ci == u.node
        jobs == MapGet(ci, <<"j","o","b","s">>)
        entries == IF IsMap(jobs)
                   THEN SelectSeq(MapRange(jobs.kv, ord), LAMBDA e : IsMap(e.val))
                   ELSE <<>>
    IN  IF ~u.ok THEN ParseResult(NilConfig, TRUE, "yaml")
        ELSE ParseResult(
                PipelineConfig(
                    <<"P","i","p","e","l","i","n","e">>,
                    <<Trigger(<<"p","u","s","h">>, <<>>, <<>>)>>,
                    [i \in 1..Len(entries) |->
                        Job(entries[i].key,
                            CircleCIRunsOn(entries[i].val),
                            <<>>,
                            CircleCIStepsOf(entries[i].val),
                            <<>>)]),
                FALSE, "none")

parseCircleCI(content, ord) == CircleCIConfig(Unmarshal(content), ord)

\* parseJenkins: the command of a trimmed line that begins with `sh ` or `sh(`
JenkinsCommand(line) == Trim(TrimPrefix(line, <<"s","h"," ">>), {"'", "\"", "(", ")"})

\* parseJenkins: the trimmed lines that begin with `sh ` or `sh(`
JenkinsShLines(lines) ==
    SelectSeq([i \in 1..Len(lines) |-> TrimSpace(lines[i])],
              LAMBDA l : HasPrefix(l, <<"s","h"," ">>) \/ HasPrefix(l, <<"s","h","(">>))

\* C11 mutant: the steps are collected last line first
JenkinsStepsReversed(shLines) ==
    [i \in 1..Len(shLines) |->
        Step(<<>>, <<>>, JenkinsCommand(shLines[Len(shLines) + 1 - i]), <<>>, <<>>)]

JenkinsSteps(shLines) ==
    [i \in 1..Len(shLines) |-> Step(<<>>, <<>>, JenkinsCommand(shLines[i]), <<>>, <<>>)]

JenkinsConfig(steps) ==
        ParseResult(
            PipelineConfig(
                <<"P","i","p","e","l","i","n","e">>,
                <<Trigger(<<"p","u","s","h">>, <<>>, <<>>)>>,
                <<Job(<<"b","u","i","l","d">>, <<"u","b","u","n","t","u","-","l","a","t","e","s","t">>, <<>>,
                      IF Len(steps) = 0
                      THEN <<Step(<<"B","u","i","l","d">>, <<>>,
                                  <<"e","c","h","o"," ","'","C","o","n","v","e","r","t","e","d"," ","f","r","o","m"," ","J","e","n","k","i","n","s"," ","-"," ","p","l","e","a","s","e"," ","r","e","v","i","e","w","'">>,
                                  <<>>, <<>>)>>
                      ELSE steps,
                      <<>>)>>),
            FALSE, "none")

parseJenkins(content) == JenkinsConfig(JenkinsSteps(JenkinsShLines(Split(content, "\n"))))

\* the number of entries of the Go map that the parser for platform ranges over
RangeLenOf(platform, u) ==
    IF platform = GitLab THEN Len(u.node.kv)
    ELSE IF platform \in {GitHub, CircleCI} /\ IsMap(MapGet(u.node, <<"j","o","b","s">>))
    THEN Len(MapGet(u.node, <<"j","o","b","s">>).kv)
    ELSE 0

RangeLen(platform, content) == RangeLenOf(platform, Unmarshal(content))

\* the switch of Converter.Parse on the content read
ParseContent(platform, content, ord) ==
    IF platform = GitHub THEN parseGitHub(content, ord)
    ELSE IF platform = GitLab THEN parseGitLab(content, ord)
    ELSE IF platform = CircleCI THEN parseCircleCI(content, ord)
    ELSE IF platform = Jenkins THEN parseJenkins(content)
    ELSE ParseResult(NilConfig, TRUE, "unsupported source platform")

(***************************************************************************)
(* State.  Three specifications share the module:                          *)
(*   Spec         Converter.Convert on a file system                       *)
(*   GenSpec      Generate, Parse of the generated text and Generate again *)
(*                on a bounded set of configurations                       *)
(*   JenkinsSpec  parseJenkins on a bounded set of Jenkinsfile lines       *)
(***************************************************************************)
VARIABLES
    files,   \* Spec: path -> [exists, data], the regular files
    dirs,    \* Spec: the directories that exist
    call,    \* Spec: the last call of Convert and how it went
    calls,   \* Spec: the number of calls of Convert so far
    prior,   \* Spec: the call before the last one and the output it left
    cfg,     \* GenSpec: the configuration given to the generator
    origin,  \* GenSpec: "any" (drawn), "parser" (returned by plat's parser), "source"
    plat,    \* GenSpec: the platform generated for and parsed from
    pc,      \* GenSpec: "start", "generated", "parsed", "failed", "done"
    out1,    \* GenSpec: Generate(plat, cfg), or a source text
    cfg1,    \* GenSpec: the configuration Parse returns for out1
    perr,    \* GenSpec: the error Parse returns for out1
    out2,    \* GenSpec: Generate(plat, cfg1)
    round,   \* GenSpec: the number of round trips completed
    jtext,   \* JenkinsSpec: the Jenkinsfile text
    jcfg,    \* JenkinsSpec: the result of parseJenkins, once parsed
    jpc,     \* JenkinsSpec: "start", "parsed"
    jerr,    \* JenkinsSpec: the error parseJenkins returned, "none" when nil
    cli,     \* CliSpec: the arguments of `cicli convert` and its exit status
    history, \* DeploySpec, StoreSpec: the history file of the store
    deploys, \* DeploySpec: the calls of DeployToK8s so far, oldest first
    procs,   \* StoreSpec: process -> where it is in Store.Add and what it holds
    added    \* StoreSpec: the deployments whose Add returned nil, oldest first

vars == <<files, dirs, call, calls, prior, cfg, origin, plat, pc, out1, cfg1, perr, out2,
          round, jtext, jcfg, jpc, jerr, cli, history, deploys, procs, added>>

convertVars == <<files, dirs, call, calls, prior>>

genVars == <<cfg, origin, plat, pc, out1, cfg1, perr, out2, round>>

jenkinsVars == <<jtext, jcfg, jpc, jerr>>

cliVars == <<cli>>

deployVars == <<history, deploys, procs, added>>

(***************************************************************************)
(* Bounded inputs                                                          *)
(***************************************************************************)
MaxJobs == 2

\* the size of a configuration that varies the steps: its jobs and their
\* steps, all together
MaxSize == 4

MaxDeps == 2

\* the number of round trips after the first
MaxRounds == 1

JobNames == <<<<"b","1">>, <<"T","_","2">>, <<"c"," ","3">>, <<"d","4">>>>

RunNames == <<<<"m","1">>, <<"m","2">>, <<"m","3">>, <<"m","4">>>>

WithKeys == <<<<"n","o","d","e","-","v","e","r","s","i","o","n">>, <<"c","a","c","h","e">>>>

WithOrders == {[i \in 1..Len(WithKeys) |-> WithKeys[p[i]]] : p \in Perms(Len(WithKeys))}

StepChoices ==
    { Step(<<>>, <<"a","c","t","i","o","n","s","/","c","h","e","c","k","o","u","t","@","v","4">>, <<>>, <<>>, <<>>),
      Step(<<>>, <<>>, <<"m","1">>, <<>>, <<>>),
      Step(<<"n","2">>, <<>>, <<"m","2">>, <<>>, <<"c">>),
      Step(<<>>, <<>>, <<>>, <<>>, <<>>),
      Step(<<>>, <<"x","/","s","e","t","u","p","-","n","o","d","e","@","v","4">>, <<>>, (<<"n","o","d","e","-","v","e","r","s","i","o","n">> :> <<"1","8">>), <<>>) }

SeqsUpTo(S, n) == UNION {[1..k -> S] : k \in 0..n}

TriggerChoices ==
    { <<>>,
      <<Trigger(<<"p","u","s","h">>, <<<<"m","a","i","n">>>>, <<>>)>>,
      <<Trigger(<<"p","u","s","h">>, <<>>, <<>>)>>,
      <<Trigger(<<"p","u","s","h">>, <<<<"m","a","i","n">>>>, <<>>), Trigger(<<"p","u","l","l","_","r","e","q","u","e","s","t">>, <<<<"m","a","i","n">>>>, <<>>)>>,
      <<Trigger(<<"s","c","h","e","d","u","l","e">>, <<>>, <<"0"," ","0"," ","1"," ","1"," ","0">>)>> }

DepNames == {JobNames[1], <<"z","z">>}

ConditionChoices == {<<>>, <<"g","i","t","h","u","b",".","r","e","f"," ","=","="," ","'","x","'">>}

\* configurations that vary the steps
StepConfigs ==
    UNION { { PipelineConfig(<<"P","i","p","e","l","i","n","e">>, <<Trigger(<<"p","u","s","h">>, <<<<"m","a","i","n">>>>, <<>>)>>,
                  [i \in 1..n |-> Job(JobNames[i], <<"u","b","u","n","t","u","-","l","a","t","e","s","t">>, <<>>, ss[i], <<>>)]) :
              ss \in {s \in [1..n -> SeqsUpTo(StepChoices, MaxSize - n)] :
                         n + Len(Cat(s)) <= MaxSize} } :
            n \in 1..MaxJobs }

\* configurations that vary the triggers, the dependencies and the condition
DependencyConfigs ==
    { PipelineConfig(<<"P","i","p","e","l","i","n","e">>, tr,
          [i \in 1..n |->
              Job(JobNames[i], <<"u","b","u","n","t","u","-","l","a","t","e","s","t">>,
                  IF i = n THEN deps ELSE <<>>,
                  <<Step(<<>>, <<>>, RunNames[i], <<>>, <<>>)>>,
                  IF i = 1 THEN cond ELSE <<>>)]) :
        tr \in TriggerChoices, deps \in SeqsUpTo(DepNames, MaxDeps),
        cond \in ConditionChoices, n \in 1..MaxJobs }

Configs == StepConfigs \cup DependencyConfigs

GeneratorPlatforms == {GitHub, GitLab, CircleCI, Azure, Jenkins}

ParserPlatforms == {GitHub, GitLab, CircleCI, Jenkins}

GitHubSource ==
    <<"n","a","m","e",":"," ","C","I","\n","o","n",":","\n"," "," ","p","u","s","h",":","\n"," "," "," "," ","p","a","t","h","s",":","\n"," "," "," "," "," "," ","-"," ","s","r","c","\n","j","o","b","s",":","\n"," "," ","b","u","i","l","d",":","\n"," "," "," "," ","r","u","n","s","-","o","n",":"," ","u","b","u","n","t","u","-","l","a","t","e","s","t","\n"," "," "," "," ","s","t","e","p","s",":","\n"," "," "," "," "," "," ","-"," ","u","s","e","s",":"," ","a","c","t","i","o","n","s","/","c","h","e","c","k","o","u","t","@","v","4","\n"," "," "," "," "," "," ","-"," ","r","u","n",":"," ","n","p","m"," ","t","e","s","t","\n">>

GitLabSource ==
    <<"s","t","a","g","e","s",":","\n"," "," ","-"," ","b","u","i","l","d","\n"," "," ","-"," ","t","e","s","t","\n","b","u","i","l","d",":","\n"," "," ","s","t","a","g","e",":"," ","b","u","i","l","d","\n"," "," ","s","c","r","i","p","t",":","\n"," "," "," "," ","-"," ","m","a","k","e","\n","t","e","s","t",":","\n"," "," ","s","t","a","g","e",":"," ","t","e","s","t","\n"," "," ","n","e","e","d","s",":","\n"," "," "," "," ","-"," ","b","u","i","l","d","\n"," "," ","s","c","r","i","p","t",":","\n"," "," "," "," ","-"," ","m","a","k","e"," ","t","e","s","t","\n">>

CircleCISource ==
    <<"v","e","r","s","i","o","n",":"," ","2",".","1","\n","j","o","b","s",":","\n"," "," ","b","u","i","l","d",":","\n"," "," "," "," ","d","o","c","k","e","r",":","\n"," "," "," "," "," "," ","-"," ","i","m","a","g","e",":"," ","c","i","m","g","/","n","o","d","e",":","1","8",".","0","\n"," "," "," "," ","s","t","e","p","s",":","\n"," "," "," "," "," "," ","-"," ","c","h","e","c","k","o","u","t","\n"," "," "," "," "," "," ","-"," ","r","u","n",":","\n"," "," "," "," "," "," "," "," "," "," ","n","a","m","e",":"," ","T","e","s","t","\n"," "," "," "," "," "," "," "," "," "," ","c","o","m","m","a","n","d",":"," ","n","p","m"," ","t","e","s","t","\n">>

JenkinsSource ==
    <<"p","i","p","e","l","i","n","e"," ","{","\n"," "," ","a","g","e","n","t"," ","a","n","y","\n"," "," ","s","t","a","g","e","s"," ","{","\n"," "," "," "," ","s","t","a","g","e","(","'","B","u","i","l","d","'",")"," ","{","\n"," "," "," "," "," "," ","s","t","e","p","s"," ","{","\n"," "," "," "," "," "," "," "," ","s","h"," ","'","m","a","k","e"," ","b","u","i","l","d","'","\n"," "," "," "," "," "," "," "," ","s","h"," ","\"","e","c","h","o"," ","'","h","i","'","\"","\n"," "," "," "," "," "," ","}","\n"," "," "," "," ","}","\n"," "," ","}","\n","}","\n">>

Sources(platform) ==
    IF platform = GitHub THEN {GitHubSource}
    ELSE IF platform = GitLab THEN {GitLabSource}
    ELSE IF platform = CircleCI THEN {CircleCISource}
    ELSE IF platform = Jenkins THEN {JenkinsSource}
    ELSE {}

(***************************************************************************)
(* The file system that Convert works on.  A path is the sequence of its   *)
(* components; <<>> is the working directory, which always exists.         *)
(***************************************************************************)
InputPath == <<"in.yml">>

MissingPath == <<"gone.yml">>

OutputPath == <<"out", "ci.yml">>

Paths == {InputPath, MissingPath, OutputPath}

NoFile == [exists |-> FALSE, readable |-> FALSE, data |-> <<>>]

File(data, readable) == [exists |-> TRUE, readable |-> readable, data |-> data]

\* filepath.Dir
Dir(path) == SubSeq(path, 1, Len(path) - 1)

\* os.ReadFile
ReadFile(fs, path) ==
    IF fs[path].exists /\ fs[path].readable
    THEN [ok |-> TRUE, data |-> fs[path].data]
    ELSE [ok |-> FALSE, data |-> <<>>]

\* C21 mutant: the call reports success and makes no directory
MkdirAllSkipped(ds, dir, denied) ==
    IF dir = <<>> \/ dir \in ds THEN [ok |-> TRUE, dirs |-> ds]
    ELSE IF denied THEN [ok |-> FALSE, dirs |-> ds]
    ELSE [ok |-> TRUE, dirs |-> ds]

\* os.MkdirAll: the directories afterwards; denied is the environment
\* refusing to create a directory that is missing
MkdirAll(ds, dir, denied) ==
    IF dir = <<>> \/ dir \in ds THEN [ok |-> TRUE, dirs |-> ds]
    ELSE IF denied THEN [ok |-> FALSE, dirs |-> ds]
    ELSE [ok |-> TRUE, dirs |-> ds \cup {SubSeq(dir, 1, k) : k \in 1..Len(dir)}]

\* C20 mutant: the file is opened for appending, not truncated
WriteFileAppending(fs, path, data, io) ==
    IF io = "open" THEN [ok |-> FALSE, files |-> fs]
    ELSE IF io = "short"
    THEN [ok |-> FALSE,
          files |-> [fs EXCEPT ![path] = File(fs[path].data, ~fs[path].exists \/ fs[path].readable)]]
    ELSE [ok |-> TRUE,
          files |-> [fs EXCEPT ![path] = File(fs[path].data \o data,
                                              ~fs[path].exists \/ fs[path].readable)]]

\* os.WriteFile: the files afterwards; io is what the environment does:
\* "open" refuses to open the file, "short" fails after the file has been
\* created or truncated, anything else lets the write through
WriteFile(fs, path, data, io) ==
    IF io = "open" THEN [ok |-> FALSE, files |-> fs]
    ELSE IF io = "short"
    THEN [ok |-> FALSE,
          files |-> [fs EXCEPT ![path] = File(<<>>, ~fs[path].exists \/ fs[path].readable)]]
    ELSE [ok |-> TRUE,
          files |-> [fs EXCEPT ![path] = File(data, ~fs[path].exists \/ fs[path].readable)]]

\* the record of a call of Convert: its arguments, what Parse read and
\* returned, whether Generate was invoked, and the error returned
Call(from, to, inputPath, outputPath, content, parsed, generated, err) ==
    [from |-> from, to |-> to, inputPath |-> inputPath, outputPath |-> outputPath,
     content |-> content, parsed |-> parsed, generated |-> generated, err |-> err]

NoCall == Call(<<>>, <<>>, <<>>, <<>>, <<>>, ParseResult(NilConfig, TRUE, "none"), FALSE, "idle")

\* a call and the text at its outputPath when it returned
Left(c, fs) == [call |-> c, text |-> IF c.err = "idle" THEN <<>> ELSE fs[c.outputPath].data]

(***************************************************************************)
(* GenSpec: Generate, Parse back, Generate again                           *)
(***************************************************************************)
ConvertIdle ==
    /\ files = [p \in Paths |-> NoFile]
    /\ dirs = {}
    /\ call = NoCall
    /\ calls = 0
    /\ prior = Left(NoCall, files)

JenkinsIdle ==
    /\ jtext = <<>>
    /\ jcfg = NilConfig
    /\ jpc = "idle"
    /\ jerr = "none"

\* `cicli convert` has not been run
NoCli == [from |-> <<>>, to |-> <<>>, input |-> <<>>, output |-> <<>>,
          called |-> FALSE, exit |-> -1]

CliIdle == cli = NoCli

\* no history file, no deployment, no process in Store.Add
DeployIdle ==
    /\ history = [exists |-> FALSE, valid |-> TRUE, entries |-> <<>>]
    /\ deploys = <<>>
    /\ procs = <<>>
    /\ added = <<>>


GenInit ==
    /\ ConvertIdle
    /\ JenkinsIdle
    /\ CliIdle
    /\ DeployIdle
    /\ plat \in GeneratorPlatforms
    /\ \/ /\ cfg \in Configs
          /\ origin = "any"
          /\ pc = "start"
          /\ out1 = <<>>
       \/ /\ cfg = NilConfig
          /\ origin = "source"
          /\ pc = "generated"
          /\ out1 \in Sources(plat)
    /\ cfg1 = NilConfig
    /\ perr = "none"
    /\ out2 = <<>>
    /\ round = 0

\* Generate(plat, cfg)
GenFirst ==
    /\ pc = "start"
    /\ \E ord \in WithOrders :
           out1' = Generate(plat, cfg, ord).text
    /\ pc' = "generated"
    /\ UNCHANGED <<cfg, origin, plat, cfg1, perr, out2, round>>
    /\ UNCHANGED <<convertVars, jenkinsVars, cliVars, deployVars>>

ParsedBack(r) ==
    /\ cfg1' = r.config
    /\ perr' = r.err
    /\ pc' = IF r.err = "none" THEN "parsed" ELSE "failed"

\* the parser of plat on the text generated
ParseBack ==
    /\ pc = "generated"
    /\ plat \in ParserPlatforms
    /\ \E ord \in Perms(RangeLen(plat, out1)) : ParsedBack(ParseContent(plat, out1, ord))
    /\ UNCHANGED <<cfg, origin, plat, out1, out2, round>>
    /\ UNCHANGED <<convertVars, jenkinsVars, cliVars, deployVars>>

\* Generate(plat, cfg1)
GenAgain ==
    /\ pc = "parsed"
    /\ \E ord \in WithOrders :
           out2' = Generate(plat, cfg1, ord).text
    /\ pc' = "done"
    /\ UNCHANGED <<cfg, origin, plat, out1, cfg1, perr, round>>
    /\ UNCHANGED <<convertVars, jenkinsVars, cliVars, deployVars>>

\* the configuration the parser returned is converted once more
Repeat ==
    /\ pc = "done"
    /\ round < MaxRounds
    /\ cfg' = cfg1
    /\ origin' = "parser"
    /\ pc' = "start"
    /\ out1' = <<>>
    /\ cfg1' = NilConfig
    /\ out2' = <<>>
    /\ round' = round + 1
    /\ UNCHANGED <<plat, perr>>
    /\ UNCHANGED <<convertVars, jenkinsVars, cliVars, deployVars>>

GenNext == GenFirst \/ ParseBack \/ GenAgain \/ Repeat

GenSpec == GenInit /\ [][GenNext]_vars


(***************************************************************************)
(* Spec: Converter.Convert on the file system                              *)
(***************************************************************************)
MaxCalls == 1

Unknown == <<"t","r","a","v","i","s">>

PlatformNames == {GitHub, GitLab, CircleCI, Jenkins, Azure, Bitbucket, Unknown}

\* Converter.Parse
Parse(platform, inputPath, fs, ord) ==
    IF ~ReadFile(fs, inputPath).ok THEN ParseResult(NilConfig, TRUE, "read")
    ELSE ParseContent(platform, ReadFile(fs, inputPath).data, ord)

\* Converter.Convert once Generate has returned g: the directory of
\* outputPath is made and the text written
Written(from, to, inputPath, outputPath, fs, ds, content, p, g, denied, io) ==
    IF g.err # "none"
    THEN [files |-> fs, dirs |-> ds,
          call |-> Call(from, to, inputPath, outputPath, content, p, TRUE, "generate")]
    ELSE IF ~MkdirAll(ds, Dir(outputPath), denied).ok
    THEN [files |-> fs, dirs |-> ds,
          call |-> Call(from, to, inputPath, outputPath, content, p, TRUE, "mkdir")]
    ELSE [files |-> WriteFile(fs, outputPath, g.text, io).files,
          dirs |-> MkdirAll(ds, Dir(outputPath), denied).dirs,
          call |-> Call(from, to, inputPath, outputPath, content, p, TRUE,
                        IF WriteFile(fs, outputPath, g.text, io).ok THEN "none" ELSE "write")]

\* C1 mutant: the directory of outputPath is made before Parse is looked at
ConvertedMkdirFirst(from, to, inputPath, outputPath, fs, ds, p, wo, denied, io) ==
    IF p.err # "none"
    THEN [files |-> fs, dirs |-> MkdirAll(ds, Dir(outputPath), denied).dirs,
          call |-> Call(from, to, inputPath, outputPath, ReadFile(fs, inputPath).data,
                        p, FALSE, "parse")]
    ELSE Written(from, to, inputPath, outputPath, fs, ds, ReadFile(fs, inputPath).data,
                 p, Generate(to, p.config, wo), denied, io)

\* Converter.Convert once Parse has returned p
Converted(from, to, inputPath, outputPath, fs, ds, p, wo, denied, io) ==
    IF p.err # "none"
    THEN [files |-> fs, dirs |-> ds,
          call |-> Call(from, to, inputPath, outputPath, ReadFile(fs, inputPath).data,
                        p, FALSE, "parse")]
    ELSE Written(from, to, inputPath, outputPath, fs, ds, ReadFile(fs, inputPath).data,
                 p, Generate(to, p.config, wo), denied, io)

\* the orders in which the parser of platform may range over its Go map
ParseOrders(platform, inputPath, fs) ==
    IF ReadFile(fs, inputPath).ok
    THEN Perms(RangeLen(platform, ReadFile(fs, inputPath).data))
    ELSE Perms(0)

Environment == {<<FALSE, "ok">>, <<TRUE, "ok">>, <<FALSE, "open">>, <<FALSE, "short">>}

\* a file that cannot be decoded: a key indented between two levels
BadIndentSource == <<"n","a","m","e",":"," ","C","I","\n","j","o","b","s",":","\n"," "," ","b","u","i","l","d",":","\n"," "," "," "," ","r","u","n","s","-","o","n",":"," ","a","\n"," "," "," ","s","t","e","p","s",":"," ","b","\n">>

\* a file that cannot be decoded: a key defined twice
DuplicateKeySource == <<"s","t","a","g","e","s",":","\n"," "," ","-"," ","a","\n","s","t","a","g","e","s",":","\n"," "," ","-"," ","b","\n">>

\* a workflow generated for a job whose unnamed step has neither uses nor run
DanglingConfig ==
    PipelineConfig(<<"P","i","p","e","l","i","n","e">>, <<Trigger(<<"p","u","s","h">>, <<<<"m","a","i","n">>>>, <<>>)>>,
        <<Job(<<"b","1">>, <<"u","b","u","n","t","u","-","l","a","t","e","s","t">>, <<>>,
              <<Step(<<>>, <<>>, <<>>, <<>>, <<>>),
                Step(<<"n","2">>, <<>>, <<"m","2">>, <<>>, <<>>)>>, <<>>)>>)

\* a workflow of two jobs: a schedule trigger, an action with two inputs, an
\* action without a translation, and `needs` given as a single name
GitHubNodeSource ==
    <<"n","a","m","e",":"," ","C","I","\n","o","n",":","\n"," "," ","p","u","s","h",":","\n"," "," "," "," ","b","r","a","n","c","h","e","s",":","\n"," "," "," "," "," "," ","-"," ","m","a","i","n","\n"," "," ","s","c","h","e","d","u","l","e",":","\n"," "," "," "," ","-"," ","c","r","o","n",":"," ","'","0"," ","0"," ","*"," ","*"," ","0","'","\n","j","o","b","s",":","\n"," "," ","b","u","i","l","d",":","\n"," "," "," "," ","r","u","n","s","-","o","n",":"," ","u","b","u","n","t","u","-","l","a","t","e","s","t","\n"," "," "," "," ","s","t","e","p","s",":","\n"," "," "," "," "," "," ","-"," ","u","s","e","s",":"," ","a","c","t","i","o","n","s","/","c","h","e","c","k","o","u","t","@","v","4","\n"," "," "," "," "," "," ","-"," ","n","a","m","e",":"," ","N","o","d","e","\n"," "," "," "," "," "," "," "," ","u","s","e","s",":"," ","a","c","t","i","o","n","s","/","s","e","t","u","p","-","n","o","d","e","@","v","4","\n"," "," "," "," "," "," "," "," ","w","i","t","h",":","\n"," "," "," "," "," "," "," "," "," "," ","n","o","d","e","-","v","e","r","s","i","o","n",":"," ","2","0","\n"," "," "," "," "," "," "," "," "," "," ","c","a","c","h","e",":"," ","n","p","m","\n"," "," "," "," "," "," ","-"," ","r","u","n",":"," ","n","p","m"," ","c","i","\n"," "," "," "," "," "," ","-"," ","u","s","e","s",":"," ","f","o","o","/","b","a","r","@","v","1","\n"," "," ","t","e","s","t",":","\n"," "," "," "," ","r","u","n","s","-","o","n",":"," ","u","b","u","n","t","u","-","l","a","t","e","s","t","\n"," "," "," "," ","n","e","e","d","s",":"," ","b","u","i","l","d","\n"," "," "," "," ","s","t","e","p","s",":","\n"," "," "," "," "," "," ","-"," ","r","u","n",":"," ","n","p","m"," ","t","e","s","t","\n">>

\* a GitLab configuration with top-level keys that are no jobs and a job
\* that needs two others
GitLabNeedsSource ==
    <<"v","a","r","i","a","b","l","e","s",":","\n"," "," ","N","O","D","E",":"," ","1","8","\n","b","e","f","o","r","e","_","s","c","r","i","p","t",":","\n"," "," ","-"," ","e","c","h","o"," ","h","i","\n","l","i","n","t",":","\n"," "," ","s","c","r","i","p","t",":","\n"," "," "," "," ","-"," ","m","a","k","e"," ","l","i","n","t","\n","t","e","s","t",":","\n"," "," ","n","e","e","d","s",":","\n"," "," "," "," ","-"," ","l","i","n","t","\n"," "," "," "," ","-"," ","b","u","i","l","d","\n"," "," ","s","c","r","i","p","t",":","\n"," "," "," "," ","-"," ","m","a","k","e"," ","t","e","s","t","\n">>

\* a CircleCI job whose steps are a `run` block, the token `checkout`, a
\* `run` given as one string and a `run` block without a name
CircleCIRunSource ==
    <<"v","e","r","s","i","o","n",":"," ","2",".","1","\n","j","o","b","s",":","\n"," "," ","t","e","s","t",":","\n"," "," "," "," ","d","o","c","k","e","r",":","\n"," "," "," "," "," "," ","-"," ","i","m","a","g","e",":"," ","c","i","m","g","/","n","o","d","e",":","1","8",".","0","\n"," "," "," "," ","s","t","e","p","s",":","\n"," "," "," "," "," "," ","-"," ","r","u","n",":","\n"," "," "," "," "," "," "," "," "," "," ","n","a","m","e",":"," ","I","n","s","t","a","l","l","\n"," "," "," "," "," "," "," "," "," "," ","c","o","m","m","a","n","d",":"," ","n","p","m"," ","c","i","\n"," "," "," "," "," "," ","-"," ","c","h","e","c","k","o","u","t","\n"," "," "," "," "," "," ","-"," ","r","u","n",":"," ","n","p","m"," ","t","e","s","t","\n"," "," "," "," "," "," ","-"," ","r","u","n",":","\n"," "," "," "," "," "," "," "," "," "," ","c","o","m","m","a","n","d",":"," ","m","a","k","e","\n">>

\* a file that cannot be decoded: a job defined twice
DuplicateJobSource == <<"j","o","b","s",":","\n"," "," ","a",":","\n"," "," "," "," ","r","u","n","s","-","o","n",":"," ","x","\n"," "," ","a",":","\n"," "," "," "," ","r","u","n","s","-","o","n",":"," ","y","\n">>

\* a workflow with a step that has a name only and a step that has both an
\* action and a command
GitHubOddSource ==
    <<"j","o","b","s",":","\n"," "," ","a",":","\n"," "," "," "," ","s","t","e","p","s",":","\n"," "," "," "," "," "," ","-"," ","n","a","m","e",":"," ","N","o","t","e","\n"," "," "," "," "," "," ","-"," ","u","s","e","s",":"," ","x","/","y","@","v","1","\n"," "," "," "," "," "," "," "," ","r","u","n",":"," ","z","\n">>

InputTexts ==
    {GitHubSource, GitLabSource, CircleCISource, JenkinsSource,
     BadIndentSource, DuplicateKeySource, generateGitHub(DanglingConfig, WithKeys),
     GitHubNodeSource, GitLabNeedsSource, CircleCIRunSource, DuplicateJobSource,
     GitHubOddSource}

OldText == <<"o","l","d","\n">>

GenIdle ==
    /\ cfg = NilConfig
    /\ origin = "none"
    /\ plat = <<>>
    /\ pc = "idle"
    /\ out1 = <<>>
    /\ cfg1 = NilConfig
    /\ perr = "none"
    /\ out2 = <<>>
    /\ round = 0

Init ==
    /\ GenIdle
    /\ JenkinsIdle
    /\ CliIdle
    /\ DeployIdle
    /\ \E text \in InputTexts, readable, old \in BOOLEAN :
           /\ readable \/ (text = GitHubSource /\ ~old)
           /\ files = [p \in Paths |->
                          IF p = InputPath THEN File(text, readable)
                          ELSE IF p = OutputPath /\ old THEN File(OldText, TRUE)
                          ELSE NoFile]
           /\ dirs = IF old THEN {Dir(OutputPath)} ELSE {}
    /\ call = NoCall
    /\ calls = 0
    /\ prior = Left(NoCall, files)

Converts(r) ==
    /\ files' = r.files
    /\ dirs' = r.dirs
    /\ call' = r.call
    /\ calls' = calls + 1
    /\ prior' = Left(call, files)

\* Convert(from, to, inputPath, outputPath)
Convert ==
    /\ calls < MaxCalls
    /\ \E from \in PlatformNames, inputPath \in {InputPath, MissingPath} :
         \E ord \in ParseOrders(from, inputPath, files) :
           \E p \in {Parse(from, inputPath, files, ord)} :
             \E to \in PlatformNames, outputPath \in {OutputPath, InputPath},
                wo \in WithOrders, env \in Environment :
                 Converts(Converted(from, to, inputPath, outputPath, files, dirs, p,
                                    wo, env[1], env[2]))
    /\ UNCHANGED <<genVars, jenkinsVars, cliVars, deployVars>>

Next == Convert

Spec == Init /\ [][Next]_vars

(***************************************************************************)
(* RerunSpec: Convert, then Convert again with the same arguments          *)
(***************************************************************************)
MaxReruns == 1

\* Convert(from, to, inputPath, outputPath) once more, with the arguments of
\* the last call, after that call has written its output
Rerun ==
    /\ calls >= 1
    /\ call.err = "none"
    /\ calls < MaxCalls + MaxReruns
    /\ \E ord \in ParseOrders(call.from, call.inputPath, files) :
         \E p \in {Parse(call.from, call.inputPath, files, ord)} :
           \E wo \in WithOrders, env \in Environment :
               Converts(Converted(call.from, call.to, call.inputPath, call.outputPath,
                                  files, dirs, p, wo, env[1], env[2]))
    /\ UNCHANGED <<genVars, jenkinsVars, cliVars, deployVars>>

RerunNext == Convert \/ Rerun

RerunSpec == Init /\ [][RerunNext]_vars

(***************************************************************************)
(* JenkinsSpec: parseJenkins on a Jenkinsfile with one `sh` step           *)
(***************************************************************************)
MaxCmdLen == 3

CmdChars == {"m", "'", "\"", "(", ")"}

Commands == UNION {[1..n -> CmdChars] : n \in 1..MaxCmdLen}

\* the `sh` step of a command, in the forms sh 'cmd', sh "cmd", sh('cmd')
\* and sh("cmd"); the command holds no quote of the kind that encloses it
ShLines ==
    {<<"s","h"," ","'">> \o c \o <<"'">> : c \in {d \in Commands : ~Contains(d, <<"'">>)}}
    \cup {<<"s","h"," ","\"">> \o c \o <<"\"">> : c \in {d \in Commands : ~Contains(d, <<"\"">>)}}
    \cup {<<"s","h","(","'">> \o c \o <<"'",")">> : c \in {d \in Commands : ~Contains(d, <<"'">>)}}
    \cup {<<"s","h","(","\"">> \o c \o <<"\"",")">> : c \in {d \in Commands : ~Contains(d, <<"\"">>)}}

Jenkinsfile(steps) ==
    <<"p","i","p","e","l","i","n","e"," ","{","\n"," "," ","s","t","a","g","e","s"," ","{","\n"," "," "," "," ","s","t","a","g","e","(","'","B","u","i","l","d","'",")"," ","{","\n"," "," "," "," "," "," ","s","t","e","p","s"," ","{","\n">>
    \o steps \o <<" "," "," "," "," "," ","}","\n"," "," "," "," ","}","\n"," "," ","}","\n","}","\n">>

\* the `sh` steps of the shortest commands
ShortShLines == {l \in ShLines : Len(l) <= 6}

JenkinsTexts ==
    {Jenkinsfile(Sp(8) \o l \o NL) : l \in ShLines}
    \cup {Jenkinsfile(<<>>), Jenkinsfile(Sp(8) \o <<"e","c","h","o"," ","'","s","h"," ","'">> \o NL)}
    \cup {Jenkinsfile(Sp(8) \o a \o NL \o Sp(8) \o <<"e","c","h","o"," ","x">> \o NL \o Sp(8) \o b \o NL) :
              a, b \in ShortShLines}

JenkinsInit ==
    /\ ConvertIdle
    /\ GenIdle
    /\ CliIdle
    /\ DeployIdle
    /\ jtext \in JenkinsTexts
    /\ jcfg = NilConfig
    /\ jpc = "start"
    /\ jerr = "none"

\* parseJenkins(jtext)
ParseJenkins ==
    /\ jpc = "start"
    /\ jcfg' = parseJenkins(jtext).config
    /\ jerr' = parseJenkins(jtext).err
    /\ jpc' = "parsed"
    /\ UNCHANGED jtext
    /\ UNCHANGED <<convertVars, genVars, cliVars, deployVars>>

JenkinsNext == ParseJenkins

JenkinsSpec == JenkinsInit /\ [][JenkinsNext]_vars

(***************************************************************************)
(* CliSpec: the command `cicli convert`                                    *)
(***************************************************************************)
\* detectCIFile: the files looked for, by platform, in the order tried
Candidates(platform) ==
    IF platform = GitHub
    THEN <<<<".github", "workflows", "ci.yml">>, <<".github", "workflows", "main.yml">>>>
    ELSE IF platform = GitLab THEN <<<<".gitlab-ci.yml">>>>
    ELSE IF platform = CircleCI THEN <<<<".circleci", "config.yml">>>>
    ELSE IF platform = Jenkins THEN <<<<"Jenkinsfile">>>>
    ELSE IF platform = Azure THEN <<<<"azure-pipelines.yml">>>>
    ELSE <<>>

getDefaultOutputPath(platform) ==
    IF platform = GitHub THEN <<".github", "workflows", "ci.yml">>
    ELSE IF platform = GitLab THEN <<".gitlab-ci.yml">>
    ELSE IF platform = CircleCI THEN <<".circleci", "config.yml">>
    ELSE IF platform = Jenkins THEN <<"Jenkinsfile">>
    ELSE IF platform = Azure THEN <<"azure-pipelines.yml">>
    ELSE <<"pipeline.yml">>

\* os.Stat returns no error: there is a file or a directory at the path
Stat(fs, ds, path) == fs[path].exists \/ path \in ds

\* detectCIFile: the first candidate that is there, <<>> for ""
detectCIFile(platform, fs, ds) ==
    LET found == SelectSeq(Candidates(platform), LAMBDA path : Stat(fs, ds, path))
    IN  IF found = <<>> THEN <<>> ELSE Head(found)

\* the platforms named on the command line; <<>> is a flag that is not given
CliFrom == {<<>>, GitHub, GitLab, Azure, Unknown}

CliTo == {<<>>, GitHub, GitLab, Bitbucket}

CliPaths ==
    Paths \cup {<<".github", "workflows", "ci.yml">>, <<".github", "workflows", "main.yml">>,
                <<".gitlab-ci.yml">>, <<".circleci", "config.yml">>, <<"Jenkinsfile">>,
                <<"azure-pipelines.yml">>, <<"pipeline.yml">>}

\* the working directory: in.yml, and perhaps the files that are detected
CliInit ==
    /\ GenIdle
    /\ JenkinsIdle
    /\ DeployIdle
    /\ CliIdle
    /\ \E text \in {GitHubSource, BadIndentSource}, gh, gl, az \in BOOLEAN :
           /\ files = [p \in CliPaths |->
                          IF p = InputPath THEN File(text, TRUE)
                          ELSE IF p = <<".github", "workflows", "main.yml">> /\ gh
                          THEN File(GitHubSource, TRUE)
                          ELSE IF p = <<".gitlab-ci.yml">> /\ gl THEN File(GitLabSource, TRUE)
                          ELSE IF p = <<"azure-pipelines.yml">> /\ az THEN File(OldText, TRUE)
                          ELSE NoFile]
           /\ dirs = IF gh THEN {<<".github">>, <<".github", "workflows">>} ELSE {}
    /\ call = NoCall
    /\ calls = 0
    /\ prior = Left(NoCall, files)

\* C22 mutant: the error of Convert is printed and the command goes on
ExitStatusIgnored(err) == 0

\* handleConvert after Convert: os.Exit(1) on an error, else the return to main
ExitStatus(err) == IF err # "none" THEN 1 ELSE 0

\* the command has left with the status, without calling Convert
Exits(from, to, input, output, status) ==
    /\ cli' = [from |-> from, to |-> to, input |-> input, output |-> output,
               called |-> FALSE, exit |-> status]
    /\ UNCHANGED convertVars

\* handleConvert from the call of Convert on
Calls(from, to, input, output, inputPath, outputPath) ==
    \E ord \in ParseOrders(from, inputPath, files) :
      \E p \in {Parse(from, inputPath, files, ord)} :
        \E wo \in WithOrders, env \in Environment :
          \E r \in {Converted(from, to, inputPath, outputPath, files, dirs, p, wo, env[1], env[2])} :
              /\ Converts(r)
              /\ cli' = [from |-> from, to |-> to, input |-> input, output |-> output,
                         called |-> TRUE, exit |-> ExitStatus(r.call.err)]

\* handleConvert with --from, --to, --input and --output as given
HandleConvert ==
    /\ cli.exit = -1
    /\ \E from \in CliFrom, to \in CliTo, input \in {<<>>, InputPath, MissingPath},
          output \in {<<>>, OutputPath} :
           IF from = <<>> \/ to = <<>> THEN Exits(from, to, input, output, 1)
           ELSE IF input = <<>> /\ detectCIFile(from, files, dirs) = <<>>
           THEN Exits(from, to, input, output, 1)
           ELSE Calls(from, to, input, output,
                      IF input = <<>> THEN detectCIFile(from, files, dirs) ELSE input,
                      IF output = <<>> THEN getDefaultOutputPath(to) ELSE output)
    /\ UNCHANGED <<genVars, jenkinsVars, deployVars>>

CliNext == HandleConvert

CliSpec == CliInit /\ [][CliNext]_vars

(***************************************************************************)
(* NameSpec: the generators on configurations of two jobs whose names have *)
(* capitals, spaces, underscores and hyphens                               *)
(***************************************************************************)
MaxNameLen == 3

NameLetters == {"a", "A"}

NameChars == NameLetters \cup {"_", "-", " "}

\* job names of up to MaxNameLen characters that begin and end with a letter
Names ==
    {n \in UNION {[1..k -> NameChars] : k \in 1..MaxNameLen} :
        n[1] \in NameLetters /\ n[Len(n)] \in NameLetters}

\* two jobs of the names, the second of which may depend on the first
NamedConfig(n1, n2, deps) ==
    PipelineConfig(<<"P","i","p","e","l","i","n","e">>, <<Trigger(<<"p","u","s","h">>, <<<<"m","a","i","n">>>>, <<>>)>>,
        <<Job(n1, <<"u","b","u","n","t","u","-","l","a","t","e","s","t">>, <<>>, <<Step(<<>>, <<>>, <<"m","1">>, <<>>, <<>>)>>, <<>>),
          Job(n2, <<"u","b","u","n","t","u","-","l","a","t","e","s","t">>, deps, <<Step(<<>>, <<>>, <<"m","2">>, <<>>, <<>>)>>, <<>>)>>)

\* the platforms whose generators write job keys
KeyPlatforms == {GitHub, GitLab, CircleCI, Azure}

NameInit ==
    /\ ConvertIdle
    /\ JenkinsIdle
    /\ CliIdle
    /\ DeployIdle
    /\ plat \in KeyPlatforms
    /\ \E n1 \in Names :
         \E n2 \in Names \ {n1}, deps \in {<<>>, <<n1>>} :
             cfg = NamedConfig(n1, n2, deps)
    /\ origin = "names"
    /\ pc = "start"
    /\ out1 = <<>>
    /\ cfg1 = NilConfig
    /\ perr = "none"
    /\ out2 = <<>>
    /\ round = 0

NameNext == GenFirst

NameSpec == NameInit /\ [][NameNext]_vars

(***************************************************************************)
(* The deployment history (package store) and the deployer (package        *)
(* deploy)                                                                 *)
(***************************************************************************)
\* store.Deployment without its ID and Timestamp, which the clock gives and
\* which decide nothing
Deployment(project, env, image, status) ==
    [Project |-> project, Env |-> env, Image |-> image, Status |-> status]

\* the history file: absent, or there with a list of deployments, or there
\* with something that is no list of deployments
NoHistory == [exists |-> FALSE, valid |-> TRUE, entries |-> <<>>]

HistoryOf(deployments) == [exists |-> TRUE, valid |-> TRUE, entries |-> deployments]

Garbled == [exists |-> TRUE, valid |-> FALSE, entries |-> <<>>]

\* Store.Load: the empty list when the file is absent, an error when it
\* cannot be decoded
Load(h) ==
    IF ~h.exists THEN [ok |-> TRUE, deployments |-> <<>>]
    ELSE IF ~h.valid THEN [ok |-> FALSE, deployments |-> <<>>]
    ELSE [ok |-> TRUE, deployments |-> h.entries]

\* Store.Add once Load has returned l: the list with d at its end is written
\* over the file; written is the file system letting the write through
Added(h, l, d, written) ==
    IF ~l.ok THEN [ok |-> FALSE, history |-> h]
    ELSE IF ~written THEN [ok |-> FALSE, history |-> h]
    ELSE [ok |-> TRUE, history |-> HistoryOf(Append(l.deployments, d))]

\* Store.Add
Add(h, d, written) == Added(h, Load(h), d, written)

\* the three kubectl commands of DeployToK8s, in the order they are run
Kubectl == <<"apply", "set image", "rollout status">>

\* C29 mutant: the commands after a failed one are run all the same
KubectlAll(failedAt) == Kubectl

\* the commands that are run when the command failedAt fails (0: none does)
KubectlRun(failedAt) ==
    IF failedAt = 0 THEN Kubectl ELSE SubSeq(Kubectl, 1, failedAt)

\* DeployToK8s: what it returns, the commands it ran and the history that
\* its deferred function leaves; opened is NewStore succeeding
DeployToK8s(h, imageName, appName, env, failedAt, opened, written) ==
    [err |-> IF failedAt = 0 THEN "none" ELSE Kubectl[failedAt],
     steps |-> KubectlRun(failedAt),
     recorded |-> opened /\ Add(h, Deployment(appName, env, imageName,
                                       IF failedAt # 0 THEN "failed" ELSE "success"),
                                written).ok,
     history |-> IF opened
                 THEN Add(h, Deployment(appName, env, imageName,
                                        IF failedAt # 0 THEN "failed" ELSE "success"),
                          written).history
                 ELSE h]

\* Rollback: the position of the deployment rolled back to, 0 when there is
\* none: the newest success of the application and environment that is not
\* the last entry of the history
RollbackTarget(deployments, appName, env) ==
    LET hits == {i \in 1..(Len(deployments) - 1) :
                    /\ deployments[i].Project = appName
                    /\ deployments[i].Env = env
                    /\ deployments[i].Status = "success"}
    IN  IF hits = {} THEN 0 ELSE Max(hits)

\* a call of the deployer as the log keeps it
Called(op, appName, env, imageName, deployed, r) ==
    [op |-> op, app |-> appName, env |-> env, image |-> imageName, deployed |-> deployed,
     err |-> r.err, steps |-> r.steps, recorded |-> r.recorded]

\* the call returned before DeployToK8s was reached
NotDeployed(h, err) == [err |-> err, steps |-> <<>>, recorded |-> FALSE, history |-> h]

(***************************************************************************)
(* DeploySpec: deployments and rollbacks of one application, one after the *)
(* other, on a history that earlier deployments have left                  *)
(***************************************************************************)
MaxHistory == 2

MaxDeploys == 2

Images == {"X", "Y"}

Apps == {"web", "api"}

Prod == "prod"

\* the histories of up to MaxHistory deployments
Histories ==
    UNION {[1..n -> {Deployment(a, Prod, i, s) :
                        a \in Apps, i \in Images, s \in {"success", "failed"}}] :
              n \in 0..MaxHistory}

DeployInit ==
    /\ ConvertIdle
    /\ GenIdle
    /\ JenkinsIdle
    /\ CliIdle
    /\ history \in {NoHistory, Garbled} \cup {HistoryOf(l) : l \in Histories \ {<<>>}}
    /\ deploys = <<>>
    /\ procs = <<>>
    /\ added = <<>>

\* the log and the history after a call
Deploys(c, h) ==
    /\ deploys' = Append(deploys, c)
    /\ history' = h
    /\ UNCHANGED <<procs, added>>
    /\ UNCHANGED <<convertVars, genVars, jenkinsVars, cliVars>>

\* DeployToK8s("k8s/deployment.yaml", image, "web", "prod")
Deploy ==
    /\ Len(deploys) < MaxDeploys
    /\ \E imageName \in Images, failedAt \in 0..3, opened, written \in BOOLEAN :
         \E r \in {DeployToK8s(history, imageName, "web", Prod, failedAt, opened, written)} :
             Deploys(Called("deploy", "web", Prod, imageName, TRUE, r), r.history)

\* Rollback("web", "prod") once the store is open and Load has returned l;
\* reopened is the NewStore of DeployToK8s succeeding
RolledBack(l, failedAt, reopened, written) ==
    IF ~l.ok THEN Deploys(Called("rollback", "web", Prod, "", FALSE,
                                 NotDeployed(history, "load")), history)
    ELSE IF RollbackTarget(l.deployments, "web", Prod) = 0
    THEN Deploys(Called("rollback", "web", Prod, "", FALSE,
                        NotDeployed(history, "no stable deployment")), history)
    ELSE \E r \in {DeployToK8s(history,
                               l.deployments[RollbackTarget(l.deployments, "web", Prod)].Image,
                               "web", Prod, failedAt, reopened, written)} :
             Deploys(Called("rollback", "web", Prod,
                            l.deployments[RollbackTarget(l.deployments, "web", Prod)].Image,
                            TRUE, r), r.history)

\* Rollback("web", "prod")
Rollback ==
    /\ Len(deploys) < MaxDeploys
    /\ \E failedAt \in 0..3, opened, reopened, written \in BOOLEAN :
           \/ /\ ~opened
              /\ failedAt = 0 /\ reopened /\ written
              /\ Deploys(Called("rollback", "web", Prod, "", FALSE,
                                NotDeployed(history, "open store")), history)
           \/ /\ opened
              /\ RolledBack(Load(history), failedAt, reopened, written)

DeployNext == Deploy \/ Rollback

DeploySpec == DeployInit /\ [][DeployNext]_vars

(***************************************************************************)
(* StoreSpec: two processes run Store.Add on the same history file.  An    *)
(* Add is a Load, an append in memory and os.WriteFile, which opens the    *)
(* file truncating it and then writes the whole list; the steps of the two *)
(* processes interleave.                                                   *)
(***************************************************************************)
MaxAdds == 2

Processes == {1, 2}

\* a process between two calls of Add
Resting(n) == [pc |-> "idle", loaded |-> <<>>, entry |-> Deployment("", "", "", ""), adds |-> n]

StoreInit ==
    /\ ConvertIdle
    /\ GenIdle
    /\ JenkinsIdle
    /\ CliIdle
    /\ history \in {NoHistory, HistoryOf(<<Deployment("api", Prod, "X", "success")>>)}
    /\ deploys = <<>>
    /\ procs = [p \in Processes |-> Resting(0)]
    /\ added = history.entries

\* a step of process p
Steps(p, step, h, a) ==
    /\ procs' = [procs EXCEPT ![p] = step]
    /\ history' = h
    /\ added' = a
    /\ UNCHANGED deploys
    /\ UNCHANGED <<convertVars, genVars, jenkinsVars, cliVars>>

\* Add(d), first part: Load; Add returns the error of a Load that fails
AddLoad(p) ==
    /\ procs[p].pc = "idle"
    /\ procs[p].adds < MaxAdds
    /\ \E imageName \in Images, status \in {"success", "failed"} :
         \E l \in {Load(history)} :
             Steps(p,
                   IF l.ok
                   THEN [pc |-> "loaded", loaded |-> l.deployments,
                         entry |-> Deployment("web", Prod, imageName, status),
                         adds |-> procs[p].adds]
                   ELSE Resting(procs[p].adds + 1),
                   history, added)

\* Add(d), second part: the list is extended and os.WriteFile opens the
\* file, which empties it; Add returns the error of an open that fails
AddOpen(p) ==
    /\ procs[p].pc = "loaded"
    /\ \E opened \in BOOLEAN :
           Steps(p,
                 IF opened
                 THEN [procs[p] EXCEPT !.pc = "opened",
                                       !.loaded = Append(procs[p].loaded, procs[p].entry)]
                 ELSE Resting(procs[p].adds + 1),
                 IF opened THEN Garbled ELSE history,
                 added)

\* Add(d), last part: os.WriteFile writes the list and Add returns nil
AddWrite(p) ==
    /\ procs[p].pc = "opened"
    /\ Steps(p, Resting(procs[p].adds + 1), HistoryOf(procs[p].loaded),
             Append(added, procs[p].entry))

StoreNext == \E p \in Processes : AddLoad(p) \/ AddOpen(p) \/ AddWrite(p)

StoreSpec == StoreInit /\ [][StoreNext]_vars

(***************************************************************************)
(* Properties of Convert (Spec)                                            *)
(***************************************************************************)
\* what Convert does before it touches the file system failed: Parse
\* returned an error (reading or parsing), or Generate did
FailedEarly(c) ==
    \/ c.parsed.err # "none"
    \/ Generate(c.to, c.parsed.config, WithKeys).err # "none"

\* C1: when reading the input, parsing it or generating the target text
\* fails, Convert returns an error and leaves every file and every directory
\* as it was: no directory is made, the file at outputPath is neither
\* created, truncated nor modified
C1_FailureLeavesFileSystem ==
    [][(calls' = calls + 1 /\ FailedEarly(call'))
           => (call'.err \in {"parse", "generate"} /\ files' = files /\ dirs' = dirs)]_vars

\* C1 witness: Convert failed in Generate with an older output file in place,
\* which is still there
C1_Witness ==
    /\ call.err = "generate"
    /\ call.outputPath = OutputPath
    /\ files[OutputPath] = File(OldText, TRUE)

\* C6: a parse request that names a platform without a parser fails with the
\* unsupported-platform error and returns no configuration, whatever the
\* input path, whether or not the file there exists or can be read
C6_UnsupportedSourceFails ==
    (call.err # "idle" /\ call.from \notin ParserPlatforms)
        => (call.parsed.err = "unsupported source platform" /\ call.parsed.isNil)

\* C7: Generate accepts every platform that GetSupportedPlatforms declares:
\* it returns text, not an unsupported-platform error
C7_SupportedTargetsGenerate ==
    (call.generated /\ \E i \in 1..Len(GetSupportedPlatforms) : call.to = GetSupportedPlatforms[i])
        => call.err # "generate"

YamlPlatforms == {GitHub, GitLab, CircleCI}

\* C8: when the text read cannot be decoded, the GitHub, GitLab and CircleCI
\* parsers return an error and a nil configuration, and Convert fails
\* without invoking a generator; no parser returns a configuration together
\* with an error
C8_DecodeFailureReturnsNil ==
    /\ (call.err # "idle" /\ call.from \in YamlPlatforms /\ call.parsed.err # "read"
            /\ ~Unmarshal(call.content).ok)
           => /\ call.parsed.err # "none"
              /\ call.parsed.isNil
              /\ call.parsed.config = NilConfig
              /\ ~call.generated
              /\ call.err = "parse"
    /\ call.parsed.err # "none" => (call.parsed.isNil /\ call.parsed.config = NilConfig)

\* C8 witness: the GitHub parser was given a workflow with a key indented
\* between two levels, and Convert failed in Parse
C8_Witness ==
    /\ call.from = GitHub
    /\ call.content = BadIndentSource
    /\ call.err = "parse"
    /\ call.parsed.isNil

\* C9: a CircleCI configuration with a docker executor image converts to
\* GitHub Actions, and the runs-on of the generated job is not the image
C9_RunsOnIsNotTheImage ==
    (call.from = CircleCI /\ call.to = GitHub /\ call.content = CircleCISource)
        => /\ call.err \notin {"parse", "generate"}
           /\ call.err = "none"
                  => ~Contains(files[call.outputPath].data, <<"r","u","n","s","-","o","n",":"," ","c","i","m","g","/","n","o","d","e",":","1","8",".","0">>)

(***************************************************************************)
(* Properties of parseJenkins (JenkinsSpec)                                *)
(***************************************************************************)
\* the command of an `sh` step: what stands between the first quote of the
\* line and the last quote of the same kind
Enclosed(line) ==
    LET open == Min({i \in 1..Len(line) : line[i] \in {"'", "\""}})
        close == Max({i \in 1..Len(line) : line[i] = line[open]})
    IN  SubSeq(line, open + 1, close - 1)

\* C10: every line that begins, once trimmed, with `sh ` or `sh(` gives a
\* step whose run is the command between the enclosing quotes, unaltered,
\* in the form sh 'cmd' and in the form sh('cmd'), also when the command
\* ends with a quote or a parenthesis
C10_CommandExtractedExactly ==
    (jpc = "parsed" /\ JenkinsShLines(Split(jtext, "\n")) # <<>>)
        => /\ Len(jcfg.Jobs[1].Steps) = Len(JenkinsShLines(Split(jtext, "\n")))
           /\ \A i \in 1..Len(jcfg.Jobs[1].Steps) :
                  jcfg.Jobs[1].Steps[i].Run = Enclosed(JenkinsShLines(Split(jtext, "\n"))[i])

(***************************************************************************)
(* Properties of the generators and of the round trip (GenSpec)            *)
(***************************************************************************)
\* the configuration cfg is one the generator was given
Given == origin # "source" /\ pc # "start"

\* the number of steps of a job that have `checkout` in uses
Checkouts(job) ==
    Cardinality({i \in 1..Len(job.Steps) : Contains(job.Steps[i].Uses, <<"c","h","e","c","k","o","u","t">>)})

\* the number of checkout steps of a workflow text
CheckoutCount(text) == Cardinality(Occurrences(text, <<"u","s","e","s",":"," ","a","c","t","i","o","n","s","/","c","h","e","c","k","o","u","t">>))

\* the number of checkout steps a workflow has when each job keeps its own
\* and a job without one gets one
CheckoutsDue(config) ==
    Len(SelectSeq(Cat([j \in 1..Len(config.Jobs) |-> config.Jobs[j].Steps]),
                  LAMBDA step : Contains(step.Uses, <<"c","h","e","c","k","o","u","t">>)))
    + Cardinality({j \in 1..Len(config.Jobs) : Checkouts(config.Jobs[j]) = 0})

\* the jobs whose text begins with a checkout step right below `steps:`
ChecksOutFirst(config) ==
    {j \in 1..Len(config.Jobs) :
        \/ Checkouts(config.Jobs[j]) = 0
        \/ /\ config.Jobs[j].Steps[1].Name = <<>>
           /\ HasPrefix(config.Jobs[j].Steps[1].Uses, <<"a","c","t","i","o","n","s","/","c","h","e","c","k","o","u","t">>)}

\* C3 as claimed: GitHub text generated, parsed back and generated again has
\* exactly one checkout step in every job
C3_ExactlyOneCheckoutPerJob ==
    (plat = GitHub /\ pc = "done") => CheckoutCount(out2) = Len(cfg1.Jobs)

\* C3 as amended: the GitHub generator emits for every job its own checkout
\* steps, and one injected as the first step exactly when the job has none;
\* the text generated again from the parse of that text has, for every job,
\* no more checkout steps than the first (one if the job had none or one)
C3_CheckoutInjectedOnlyWhenAbsent ==
    plat = GitHub =>
        /\ Given =>
              /\ CheckoutCount(out1) = CheckoutsDue(cfg)
              /\ Cardinality(Occurrences(out1, <<" "," "," "," ","s","t","e","p","s",":","\n"," "," "," "," "," "," ","-"," ","u","s","e","s",":"," ","a","c","t","i","o","n","s","/","c","h","e","c","k","o","u","t">>))
                     = Cardinality(ChecksOutFirst(cfg))
        /\ pc = "done" =>
              /\ CheckoutCount(out2) = CheckoutsDue(cfg1)
              /\ origin # "source" =>
                     \A j1 \in 1..Len(cfg1.Jobs) : \E j \in 1..Len(cfg.Jobs) :
                         /\ cfg1.Jobs[j1].Name = sanitizeName(cfg.Jobs[j].Name)
                         /\ Checkouts(cfg1.Jobs[j1]) <= Max({1, Checkouts(cfg.Jobs[j])})

\* C3 witness: a job with steps but no checkout step was generated, parsed
\* back and generated again, and the second text has one checkout step a job
C3_Witness ==
    /\ plat = GitHub
    /\ pc = "done"
    /\ origin = "any"
    /\ \E j \in 1..Len(cfg.Jobs) :
           Checkouts(cfg.Jobs[j]) = 0 /\ Len(cfg.Jobs[j].Steps) > 0
    /\ Len(cfg1.Jobs) > 0
    /\ CheckoutCount(out2) = Len(cfg1.Jobs)

\* the list of names below a dependency key, each on a line of its own
Listing(key, item, names) ==
    key \o Cat([i \in 1..Len(names) |-> item \o names[i] \o NL])

\* marks occur in text one after the other, from position from on
RECURSIVE InOrderFrom(_, _, _, _)
InOrderFrom(marks, k, text, from) ==
    IF k > Len(marks) THEN TRUE
    ELSE LET hits == {i \in Occurrences(text, marks[k]) : i >= from}
         IN  hits # {} /\ InOrderFrom(marks, k + 1, text, Min(hits) + Len(marks[k]))

InOrder(marks, text) == InOrderFrom(marks, 1, text, 1)

\* the dependency construct of a platform is in the text with the names of
\* deps, in order and unchanged; a Jenkinsfile has at least the names in order
Depends(platform, deps, text) ==
    IF platform = GitHub
    THEN Contains(text, Listing(<<" "," "," "," ","n","e","e","d","s",":","\n">>, <<" "," "," "," "," "," ","-"," ">>, deps))
    ELSE IF platform = GitLab
    THEN Contains(text, Listing(<<" "," ","n","e","e","d","s",":","\n">>, <<" "," "," "," ","-"," ">>, deps))
    ELSE IF platform = CircleCI
    THEN Contains(text, Listing(<<" "," "," "," "," "," "," "," "," "," ","r","e","q","u","i","r","e","s",":","\n">>, <<" "," "," "," "," "," "," "," "," "," "," "," ","-"," ">>, deps))
    ELSE IF platform = Azure
    THEN Contains(text, Listing(<<" "," "," "," "," "," "," "," ","d","e","p","e","n","d","s","O","n",":","\n">>, <<" "," "," "," "," "," "," "," "," "," ","-"," ">>, deps))
    ELSE InOrder(deps, text)

\* C4: for every generator and every job with a non-empty dependsOn, the
\* text holds the job's dependency construct with exactly the names of
\* dependsOn, in order and unchanged, also when a name is of no job
C4_DependenciesEmitted ==
    Given => \A j \in 1..Len(cfg.Jobs) :
                 Len(cfg.Jobs[j].DependsOn) > 0 => Depends(plat, cfg.Jobs[j].DependsOn, out1)

\* what tells a step in the text of a platform: nothing when the generator
\* of the platform emits nothing for the step
StepMarks(platform, step) ==
    IF platform = GitHub
    THEN IF step.Uses # <<>> THEN <<<<" ","u","s","e","s",":"," ">> \o step.Uses \o NL>>
         ELSE IF step.Run # <<>> THEN <<<<" ","r","u","n",":"," ">> \o step.Run \o NL>>
         ELSE IF step.Name # <<>> THEN <<<<"-"," ","n","a","m","e",":"," ">> \o step.Name \o NL>>
         ELSE <<>>
    ELSE IF platform = GitLab
    THEN IF step.Run # <<>> THEN <<<<" "," "," "," ","-"," ">> \o step.Run \o NL>>
         ELSE IF step.Uses # <<>> /\ convertActionToCommand(step) # <<>>
         THEN <<<<" "," "," "," ","-"," ">> \o convertActionToCommand(step) \o NL>>
         ELSE <<>>
    ELSE IF step.Run = <<>> THEN <<>>
    ELSE IF platform = CircleCI THEN <<<<"c","o","m","m","a","n","d",":"," ">> \o step.Run \o NL>>
    ELSE IF platform = Azure THEN <<<<"-"," ","s","c","r","i","p","t",":"," ","|","\n"," "," "," "," "," "," "," "," "," "," "," "," "," "," ">> \o step.Run \o NL>>
    ELSE <<<<"s","h"," ","'">> \o escapeJenkinsString(step.Run) \o <<"'","\n">>>>

\* what tells a job in the text of a platform
JobMark(platform, job) ==
    IF platform = GitHub \/ platform = CircleCI
    THEN <<" "," ">> \o sanitizeName(job.Name) \o <<":","\n">>
    ELSE IF platform = GitLab
    THEN sanitizeName(job.Name) \o <<":","\n"," "," ","s","t","a","g","e",":"," ">>
    ELSE IF platform = Azure
    THEN <<" "," ","-"," ","s","t","a","g","e",":"," ">> \o sanitizeName(job.Name) \o NL
    ELSE <<"s","t","a","g","e","(","'">> \o job.Name \o <<"'",")">>

\* the jobs with their steps, then (GitLab first, CircleCI last) the list of
\* all jobs
Marks(platform, config) ==
    (IF platform = GitLab
     THEN [j \in 1..Len(config.Jobs) |-> <<" "," ","-"," ">> \o sanitizeName(config.Jobs[j].Name) \o NL]
     ELSE <<>>)
    \o Cat([j \in 1..Len(config.Jobs) |->
               <<JobMark(platform, config.Jobs[j])>>
               \o Cat([i \in 1..Len(config.Jobs[j].Steps) |->
                          StepMarks(platform, config.Jobs[j].Steps[i])])])
    \o (IF platform = CircleCI
        THEN <<<<" "," "," "," ","j","o","b","s",":","\n">>>>
             \o [j \in 1..Len(config.Jobs) |->
                    <<" "," "," "," "," "," ","-"," ">> \o sanitizeName(config.Jobs[j].Name)]
        ELSE <<>>)

\* C5: in the text of every generator the jobs stand in the order of the
\* configuration, also in the stages of GitLab and in the workflow of
\* CircleCI, and the steps emitted for a job stand in the order of its steps
C5_OrderPreserved == Given => InOrder(Marks(plat, cfg), out1)

\* C5 witness: a GitLab text was generated for two jobs, one of them with
\* two steps that run different commands
C5_Witness ==
    /\ pc = "generated"
    /\ plat = GitLab
    /\ origin = "any"
    /\ Len(cfg.Jobs) = 2
    /\ \E j \in 1..2 :
           /\ Len(cfg.Jobs[j].Steps) = 2
           /\ cfg.Jobs[j].Steps[1].Run # <<>>
           /\ cfg.Jobs[j].Steps[2].Run # <<>>
           /\ cfg.Jobs[j].Steps[1].Run # cfg.Jobs[j].Steps[2].Run

\* the jobs of a configuration, each with its steps in order
JobSet(config) ==
    {[Name |-> config.Jobs[j].Name, Steps |-> config.Jobs[j].Steps] :
        j \in 1..Len(config.Jobs)}

\* C2: for a platform with a parser and a generator and a configuration the
\* parser of the platform produced, parsing the generated text succeeds and
\* gives the same set of jobs, the same steps in the same order in every job
\* and the same triggers (from which the equality of the two texts follows)
C2_RoundTrip ==
    (origin = "parser" /\ plat \in ParserPlatforms /\ pc \in {"failed", "done"})
        => /\ pc = "done"
           /\ JobSet(cfg1) = JobSet(cfg)
           /\ cfg1.Triggers = cfg.Triggers

(***************************************************************************)
(* Properties of the parsers                                               *)
(***************************************************************************)
\* C11: parseJenkins succeeds on every text and returns one job, named
\* build, with one run step for every `sh ` or `sh(` line, in the order of
\* the lines, and with one placeholder step when there is no such line
C11_JenkinsOneBuildJob ==
    jpc = "parsed" =>
        /\ jerr = "none"
        /\ Len(jcfg.Jobs) = 1
        /\ jcfg.Jobs[1].Name = <<"b","u","i","l","d">>
        /\ LET shLines == JenkinsShLines(Split(jtext, "\n"))
               steps == jcfg.Jobs[1].Steps
           IN  IF shLines = <<>>
               THEN /\ Len(steps) = 1
                    /\ steps[1].Uses = <<>>
                    /\ steps[1].Run = <<"e","c","h","o"," ","'","C","o","n","v","e","r","t","e","d"," ","f","r","o","m"," ","J","e","n","k","i","n","s"," ","-"," ","p","l","e","a","s","e"," ","r","e","v","i","e","w","'">>
               ELSE /\ Len(steps) = Len(shLines)
                    /\ \A i \in 1..Len(steps) :
                           /\ steps[i].Uses = <<>>
                           /\ steps[i].Name = <<>>
                           /\ steps[i].Run = Trim(TrimPrefix(shLines[i], <<"s","h"," ">>),
                                                  {"'", "\"", "(", ")"})

\* C11 witness: a Jenkinsfile with two `sh` lines of different commands was
\* parsed into a job of two steps
C11_Witness ==
    /\ jpc = "parsed"
    /\ Len(jcfg.Jobs) = 1
    /\ Len(jcfg.Jobs[1].Steps) = 2
    /\ jcfg.Jobs[1].Steps[1].Run # jcfg.Jobs[1].Steps[2].Run

(***************************************************************************)
(* Properties of conversions between platforms (Spec)                      *)
(***************************************************************************)
\* Convert was called, parsed the input as from, generated for to and wrote
\* the text
Converting(from, to) == call.from = from /\ call.to = to /\ call.err = "none"

\* the text of the block that starts with head, up to the empty line after it
BlockAt(text, head) ==
    LET at == Min(Occurrences(text, head))
        ends == {i \in Occurrences(text, <<"\n", "\n">>) : i >= at}
    IN  IF ends = {} THEN SubSeq(text, at, Len(text)) ELSE SubSeq(text, at, Min(ends) + 1)

HasSuffix(s, suffix) ==
    Len(s) >= Len(suffix) /\ SubSeq(s, Len(s) - Len(suffix) + 1, Len(s)) = suffix

\* the script lines that a step stands for: its run command, or else the
\* translation of its action unless that is a checkout
ScriptLines(step) ==
    IF step.Run # <<>> THEN <<step.Run>>
    ELSE IF step.Uses # <<>> /\ ~Contains(step.Uses, <<"c","h","e","c","k","o","u","t">>)
    THEN <<convertActionToCommand(step)>>
    ELSE <<>>

ScriptOf(job) == Cat([i \in 1..Len(job.Steps) |-> ScriptLines(job.Steps[i])])

\* the job has its own block in a GitLab text: named after the job, in the
\* stage of the same name, with exactly the script lines of the job
GitLabBlock(job, text) ==
    LET head == NL \o sanitizeName(job.Name) \o <<":","\n"," "," ","s","t","a","g","e",":"," ">> \o sanitizeName(job.Name) \o NL
    IN  /\ Cardinality(Occurrences(text, head)) = 1
        /\ Cardinality(Occurrences(BlockAt(text, head), <<" "," ","s","c","r","i","p","t",":","\n">>)) = 1
        /\ HasSuffix(BlockAt(text, head), Listing(<<" "," ","s","c","r","i","p","t",":","\n">>, <<" "," "," "," ","-"," ">>, ScriptOf(job)) \o NL)

NeedyJobs(u) ==
    IF u.ok /\ IsMap(u.node)
    THEN {i \in 1..Len(u.node.kv) :
             /\ u.node.kv[i].key \notin GitLabReserved
             /\ IsMap(u.node.kv[i].val)
             /\ IsSlice(MapGet(u.node.kv[i].val, <<"n","e","e","d","s">>))
             /\ Items(MapGet(u.node.kv[i].val, <<"n","e","e","d","s">>)) # <<>>}
    ELSE {}

\* the job of the name in a GitHub text, generated from a GitLab job, needs
\* exactly the names, in order
GitHubNeeds(name, names, text) ==
    \E next \in {<<" "," "," "," ","s","t","e","p","s",":","\n">>, <<" "," "," "," ","i","f",":"," ">>} :
        Contains(text, NL \o <<" "," ">> \o sanitizeName(name) \o <<":","\n"," "," "," "," ","r","u","n","s","-","o","n",":"," ","u","b","u","n","t","u","-","l","a","t","e","s","t","\n">>
                          \o Listing(<<" "," "," "," ","n","e","e","d","s",":","\n">>, <<" "," "," "," "," "," ","-"," ">>, names) \o next)

NeedsKept(u, text) ==
    \A i \in NeedyJobs(u) :
        GitHubNeeds(u.node.kv[i].key, SprintAll(MapGet(u.node.kv[i].val, <<"n","e","e","d","s">>)), text)

\* C13: a GitLab configuration converted to GitHub Actions keeps the needs
\* of every job: where the GitLab job lists the job names n1, ..., nk, the
\* needs of the same job of the workflow are n1, ..., nk in the same order
C13_GitLabNeedsKept ==
    Converting(GitLab, GitHub) => NeedsKept(Unmarshal(call.content), files[call.outputPath].data)

\* C13 witness: the configuration whose job test needs lint and build, in
\* this order, was converted to GitHub Actions
C13_Witness ==
    /\ Converting(GitLab, GitHub)
    /\ call.content = GitLabNeedsSource
    /\ \E i \in 1..Len(call.parsed.config.Jobs) :
           call.parsed.config.Jobs[i].DependsOn = <<<<"l","i","n","t">>, <<"b","u","i","l","d">>>>

\* the names that a decoded `needs` stands for: the name itself when it is
\* one scalar, the names of the list when it is a sequence
NeedsOf(n) ==
    IF IsString(n) THEN <<Sprint(n)>>
    ELSE IF IsSlice(n) THEN SprintAll(n)
    ELSE <<>>

\* every job of the decoded workflow is in config with the names of its needs
NeedsRead(u, config) ==
    (u.ok /\ IsMap(u.node) /\ IsMap(MapGet(u.node, <<"j","o","b","s">>))) =>
        \A i \in 1..Len(MapGet(u.node, <<"j","o","b","s">>).kv) :
            LET e == MapGet(u.node, <<"j","o","b","s">>).kv[i]
            IN  IsMap(e.val) =>
                    \E j \in 1..Len(config.Jobs) :
                        /\ config.Jobs[j].Name = e.key
                        /\ config.Jobs[j].DependsOn = NeedsOf(MapGet(e.val, <<"n","e","e","d","s">>))

\* C14: parseGitHub reads the needs of a job into dependsOn, both when needs
\* is one scalar name (`needs: build` gives <<build>>) and when it is a
\* sequence of names (dependsOn is the sequence, in order)
C14_NeedsScalarOrSequence ==
    (call.from = GitHub /\ call.err # "idle" /\ call.parsed.err = "none")
        => NeedsRead(Unmarshal(call.content), call.parsed.config)

\* the branches listed under a trigger key of a decoded `on` mapping
BranchesOf(n) ==
    IF IsMap(n) /\ IsSlice(MapGet(n, <<"b","r","a","n","c","h","e","s">>)) THEN SprintAll(MapGet(n, <<"b","r","a","n","c","h","e","s">>))
    ELSE <<>>

\* the cron expressions listed under `schedule`
CronsOf(n) ==
    IF IsSlice(n)
    THEN {getString(Items(n)[i], <<"c","r","o","n">>) : i \in {j \in 1..Len(Items(n)) : IsMap(Items(n)[j])}}
    ELSE {}

\* config has a trigger for every one of the three keys of the `on` mapping
TriggersRead(u, config) ==
    (u.ok /\ IsMap(u.node) /\ IsMap(MapGet(u.node, <<"o","n">>))) =>
        \A i \in 1..Len(MapGet(u.node, <<"o","n">>).kv) :
            LET e == MapGet(u.node, <<"o","n">>).kv[i]
            IN  /\ e.key \in {<<"p","u","s","h">>, <<"p","u","l","l","_","r","e","q","u","e","s","t">>} =>
                       \E t \in 1..Len(config.Triggers) :
                           /\ config.Triggers[t].Type = e.key
                           /\ config.Triggers[t].Branches = BranchesOf(e.val)
                /\ e.key = <<"s","c","h","e","d","u","l","e">> =>
                       \E t \in 1..Len(config.Triggers) :
                           /\ config.Triggers[t].Type = e.key
                           /\ config.Triggers[t].Cron \in CronsOf(e.val)

\* C15: for each of the keys push, pull_request and schedule of the `on`
\* mapping, parseGitHub returns a trigger of that type, with the branches
\* listed for push and pull_request and the cron expression for schedule
C15_TriggersRead ==
    (call.from = GitHub /\ call.err # "idle" /\ call.parsed.err = "none")
        => TriggersRead(Unmarshal(call.content), call.parsed.config)

\* the top-level keys of a decoded GitLab configuration
TopLevelKeys(u) ==
    IF u.ok /\ IsMap(u.node) THEN {u.node.kv[i].key : i \in 1..Len(u.node.kv)} ELSE {}

\* the top-level keys whose value is a mapping
MappingKeys(u) ==
    IF u.ok /\ IsMap(u.node)
    THEN {u.node.kv[i].key : i \in {j \in 1..Len(u.node.kv) : IsMap(u.node.kv[j].val)}}
    ELSE {}

\* the four keys that the claim lists as reserved
ReservedKeys == {<<"s","t","a","g","e","s">>, <<"v","a","r","i","a","b","l","e","s">>, <<"i","m","a","g","e">>, <<"d","e","f","a","u","l","t">>}

\* config has one job for every name of names and no other job
JobsAre(config, names) ==
    /\ {config.Jobs[j].Name : j \in 1..Len(config.Jobs)} = names
    /\ Len(config.Jobs) = Cardinality(names)

\* parseGitLab was called by Convert and returned a configuration
GitLabParsed == call.from = GitLab /\ call.err # "idle" /\ call.parsed.err = "none"

\* C16 as stated: the names of the jobs that parseGitLab returns are exactly
\* the top-level keys of the input other than stages, variables, image and
\* default, one job for every such key
C16_JobsAreUnreservedKeys ==
    GitLabParsed =>
        JobsAre(call.parsed.config, TopLevelKeys(Unmarshal(call.content)) \ ReservedKeys)

\* C16 amended: the names of the jobs that parseGitLab returns are exactly
\* the top-level keys of the input, other than stages, variables, image and
\* default, whose value is a mapping, one job for every such key; a key
\* whose value is a scalar or a list yields no job, and no reserved key does
C16_JobsAreUnreservedMappings ==
    GitLabParsed =>
        JobsAre(call.parsed.config, MappingKeys(Unmarshal(call.content)) \ ReservedKeys)

\* C16 witness: a configuration with the reserved mapping `variables`, the
\* list `before_script` and the jobs lint and test was parsed
C16_Witness ==
    /\ GitLabParsed
    /\ call.content = GitLabNeedsSource
    /\ JobsAre(call.parsed.config, {<<"l","i","n","t">>, <<"t","e","s","t">>})

\* a decoded CircleCI step is the token `checkout`
IsCheckoutToken(s) == IsString(s) /\ s.v = <<"c","h","e","c","k","o","u","t">>

\* a decoded CircleCI step is a `run` block: a mapping with the sub-fields
\* of the command below the key run
IsRunBlock(s) == IsMap(s) /\ IsMap(MapGet(s, <<"r","u","n">>))

\* the source steps that the claim counts, by their position in the job
CountedSteps(items) ==
    SelectSeq([i \in 1..Len(items) |-> i],
              LAMBDA i : IsCheckoutToken(items[i]) \/ IsRunBlock(items[i]))

\* steps are the counted source steps of items, one for one and in order
StepsFollow(steps, items) ==
    /\ Len(steps) = Len(CountedSteps(items))
    /\ \A k \in 1..Len(CountedSteps(items)) :
           LET s == items[CountedSteps(items)[k]]
           IN  IF IsCheckoutToken(s)
               THEN steps[k].Uses = <<"a","c","t","i","o","n","s","/","c","h","e","c","k","o","u","t","@","v","4">> /\ steps[k].Run = <<>>
               ELSE /\ steps[k].Uses = <<>>
                    /\ steps[k].Name = getString(MapGet(s, <<"r","u","n">>), <<"n","a","m","e">>)
                    /\ steps[k].Run = getString(MapGet(s, <<"r","u","n">>), <<"c","o","m","m","a","n","d">>)

\* every job of the decoded configuration is in config with the steps that
\* follow its source steps
CircleCIStepsRead(u, config) ==
    (u.ok /\ IsMap(u.node) /\ IsMap(MapGet(u.node, <<"j","o","b","s">>))) =>
        \A i \in 1..Len(MapGet(u.node, <<"j","o","b","s">>).kv) :
            LET e == MapGet(u.node, <<"j","o","b","s">>).kv[i]
            IN  IsMap(e.val) =>
                    \E j \in 1..Len(config.Jobs) :
                        /\ config.Jobs[j].Name = e.key
                        /\ StepsFollow(config.Jobs[j].Steps, Items(MapGet(e.val, <<"s","t","e","p","s">>)))

\* C17: for every job, parseCircleCI returns in source order one step for
\* every source step that is the token checkout (with uses
\* actions/checkout@v4) or a run block (name and run from the sub-fields name
\* and command); no other step is added, no run block is dropped or moved
C17_CircleCIStepsInOrder ==
    (call.from = CircleCI /\ call.err # "idle" /\ call.parsed.err = "none")
        => CircleCIStepsRead(Unmarshal(call.content), call.parsed.config)

\* C17 witness: a job with a run block before the checkout and another run
\* block after it was parsed into three steps
C17_Witness ==
    /\ call.from = CircleCI
    /\ call.content = CircleCIRunSource
    /\ call.parsed.err = "none"
    /\ Len(call.parsed.config.Jobs) = 1
    /\ Len(call.parsed.config.Jobs[1].Steps) = 3
    /\ call.parsed.config.Jobs[1].Steps[1].Run = <<"n","p","m"," ","c","i">>
    /\ call.parsed.config.Jobs[1].Steps[3].Run = <<"m","a","k","e">>

(***************************************************************************)
(* Properties of the generators (GenSpec)                                  *)
(***************************************************************************)
\* a step that names no action and no command
IsNoop(step) == step.Uses = <<>> /\ step.Run = <<>>

\* the configuration without the steps that name no action and no command
WithoutNoops(config) ==
    [config EXCEPT !.Jobs =
        [j \in 1..Len(config.Jobs) |->
            [config.Jobs[j] EXCEPT !.Steps =
                SelectSeq(config.Jobs[j].Steps, LAMBDA s : ~IsNoop(s))]]]

\* C18: a step with neither uses nor run is a no-op for every generator: the
\* text generated for a configuration is the text generated for the same
\* configuration without these steps
C18_NoopStepsLeaveNoText ==
    Given => \E wo \in WithOrders : out1 = Generate(plat, WithoutNoops(cfg), wo).text

\* the block of the job in a GitLab text
GitLabBlockOf(job, text) ==
    BlockAt(text, NL \o sanitizeName(job.Name) \o <<":","\n"," "," ","s","t","a","g","e",":"," ">> \o sanitizeName(job.Name) \o NL)

\* the block of the job has one rules block with the one expression, or has
\* none when the expression is empty
RulesAre(job, text, expression) ==
    IF expression = <<>>
    THEN ~Contains(GitLabBlockOf(job, text), <<"r","u","l","e","s",":">>)
    ELSE /\ Cardinality(Occurrences(GitLabBlockOf(job, text), <<" "," ","r","u","l","e","s",":","\n">>)) = 1
         /\ Cardinality(Occurrences(GitLabBlockOf(job, text), <<" "," "," "," ","-"," ","i","f",":"," ">>)) = 1
         /\ Contains(GitLabBlockOf(job, text), <<" "," ","r","u","l","e","s",":","\n"," "," "," "," ","-"," ","i","f",":"," ">> \o expression \o NL)

\* C19: generateGitLab writes for every job with a condition one rules block
\* with one `if:` whose expression is the text of the condition, unchanged
\* whatever its dialect, and writes no rules block for a job without one
C19_ConditionCopiedUnchanged ==
    (Given /\ plat = GitLab) =>
        \A j \in 1..Len(cfg.Jobs) : RulesAre(cfg.Jobs[j], out1, cfg.Jobs[j].Condition)

(***************************************************************************)
(* Properties of running Convert again (RerunSpec)                         *)
(***************************************************************************)
\* the last two calls of Convert had the same from, to, outputPath and
\* content of the input file, and both wrote their output
RanTwice ==
    /\ calls >= 2
    /\ prior.call.err = "none"
    /\ call.err = "none"
    /\ prior.call.from = call.from
    /\ prior.call.to = call.to
    /\ prior.call.outputPath = call.outputPath
    /\ prior.call.content = call.content

\* the lines are the same, each as often, whatever their order
SameLines(la, lb) ==
    /\ Len(la) = Len(lb)
    /\ \A i \in 1..Len(la) :
           Cardinality({k \in 1..Len(la) : la[k] = la[i]})
               = Cardinality({k \in 1..Len(lb) : lb[k] = la[i]})

\* the configuration has at most one job and no step with several inputs
SingleEntries(config) ==
    /\ Len(config.Jobs) <= 1
    /\ \A j \in 1..Len(config.Jobs) :
           \A s \in 1..Len(config.Jobs[j].Steps) :
               Cardinality(DOMAIN config.Jobs[j].Steps[s].With) <= 1

\* C20: two runs of Convert with the same from, to, content of the input
\* file and outputPath leave the output file with the same text up to the
\* order in which the entries of the unordered mappings of the input are
\* written, and with the very same text when the input has at most one job
\* and no step has more than one input
C20_RerunSameOutput ==
    RanTwice =>
        /\ SameLines(Split(prior.text, "\n"), Split(files[call.outputPath].data, "\n"))
        /\ SingleEntries(call.parsed.config) => files[call.outputPath].data = prior.text

\* C20 witness: a workflow of one job was converted twice to the same file,
\* which holds the same text after the second run as after the first
C20_Witness ==
    /\ RanTwice
    /\ call.content = GitHubSource
    /\ call.from = GitHub
    /\ call.to = GitLab
    /\ call.outputPath = OutputPath
    /\ files[OutputPath].data = prior.text
    /\ prior.text # <<>>

(***************************************************************************)
(* Properties of a successful Convert (Spec)                               *)
(***************************************************************************)
\* the directories above a path
Parents(path) == {SubSeq(path, 1, k) : k \in 1..(Len(path) - 1)}

\* the file at the path of c holds what Generate returns for the
\* configuration that Parse returned to c, whatever it held before
HoldsGenerated(c, fs) ==
    /\ fs[c.outputPath].exists
    /\ \E wo \in WithOrders :
           /\ Generate(c.to, c.parsed.config, wo).err = "none"
           /\ fs[c.outputPath].data = Generate(c.to, c.parsed.config, wo).text

\* C21: when reading, parsing and generating succeed and the file system
\* accepts the write, Convert makes every missing directory above outputPath
\* and leaves at outputPath exactly Generate(to, Parse(from, input)) in place
\* of what the file held; Convert returns success in that case only
C21_SuccessWritesGenerated ==
    [][(calls' = calls + 1) =>
          /\ call'.err = "none" =>
                 /\ ReadFile(files, call'.inputPath).ok
                 /\ call'.content = ReadFile(files, call'.inputPath).data
                 /\ call'.parsed.err = "none"
                 /\ call'.generated
                 /\ Parents(call'.outputPath) \subseteq dirs'
                 /\ dirs \subseteq dirs'
                 /\ HoldsGenerated(call', files')
                 /\ \A p \in Paths \ {call'.outputPath} : files'[p] = files[p]
          /\ (call'.err # "none" /\ ~FailedEarly(call')) => call'.err \in {"mkdir", "write"}]_vars

\* C21 witness: Convert returned success for a path whose file held an
\* older text or whose directory was missing; the directory is there and
\* the file holds the generated text
C21_Witness ==
    /\ call.err = "none"
    /\ call.outputPath = OutputPath
    /\ call.from = GitLab
    /\ call.to = GitHub
    /\ Dir(OutputPath) \in dirs
    /\ HoldsGenerated(call, files)
    /\ files[OutputPath].data # OldText
    /\ Len(call.parsed.config.Jobs) = 2

(***************************************************************************)
(* Properties of the command `cicli convert` (CliSpec)                     *)
(***************************************************************************)
\* no file that detectCIFile looks for on behalf of the platform is there
NothingDetected(platform, fs, ds) ==
    \A i \in 1..Len(Candidates(platform)) : ~Stat(fs, ds, Candidates(platform)[i])

\* C22: `cicli convert` exits with a non-zero status whenever Convert returns
\* an error, and also when --from or --to is missing or no input file is
\* given and none is detected; it never reports success after a conversion
\* that failed
C22_ConvertFailureExitsNonZero ==
    [][(cli.exit = -1 /\ cli'.exit # -1) =>
          /\ (cli'.from = <<>> \/ cli'.to = <<>>) => cli'.exit # 0
          /\ (cli'.input = <<>> /\ NothingDetected(cli'.from, files, dirs)) => cli'.exit # 0
          /\ (cli'.called /\ call'.err # "none") => cli'.exit # 0
          /\ cli'.exit = 0 => (cli'.called /\ calls' = calls + 1 /\ call'.err = "none")]_vars

\* C22 witness: the command called Convert for a detected file, the write
\* failed and the command left with status 1
C22_Witness ==
    /\ cli.exit = 1
    /\ cli.called
    /\ cli.input = <<>>
    /\ call.err = "write"

(***************************************************************************)
(* Properties of the configurations that the parsers return (Spec)         *)
(***************************************************************************)
\* Parse was called by Convert and returned a configuration
ParsedBy(platform) == call.from = platform /\ call.err # "idle" /\ call.parsed.err = "none"

\* C23: every configuration that a parser (github, gitlab, circleci,
\* jenkins) returns has pairwise distinct job names
C23_JobNamesDistinct ==
    (\E platform \in ParserPlatforms : ParsedBy(platform)) =>
        \A i, j \in 1..Len(call.parsed.config.Jobs) :
            call.parsed.config.Jobs[i].Name = call.parsed.config.Jobs[j].Name => i = j

\* C23 witness: a configuration of two jobs was returned by parseGitLab
C23_Witness ==
    /\ ParsedBy(GitLab)
    /\ call.content = GitLabNeedsSource
    /\ Len(call.parsed.config.Jobs) = 2
    /\ call.parsed.config.Jobs[1].Name # call.parsed.config.Jobs[2].Name

\* the steps of a configuration, job after job
AllSteps(config) == Cat([j \in 1..Len(config.Jobs) |-> config.Jobs[j].Steps])

\* exactly one of uses and run is populated
ExactlyOne(step) == (step.Uses # <<>>) # (step.Run # <<>>)

\* C24 as stated: every step of a configuration that a parser returns has
\* exactly one of uses and run populated, never both and never neither
C24_ExactlyOneOfUsesAndRun ==
    (\E platform \in ParserPlatforms : ParsedBy(platform)) =>
        \A i \in 1..Len(AllSteps(call.parsed.config)) : ExactlyOne(AllSteps(call.parsed.config)[i])

\* the steps are the source steps that are mappings, one for one, with uses
\* and run as the source gives them: "" for a key that is absent or no string
UsesAndRunFollow(steps, items) ==
    /\ Len(steps) = Len(SelectSeq(items, IsMap))
    /\ \A k \in 1..Len(steps) :
           /\ steps[k].Uses = getString(SelectSeq(items, IsMap)[k], <<"u","s","e","s">>)
           /\ steps[k].Run = getString(SelectSeq(items, IsMap)[k], <<"r","u","n">>)

GitHubStepsRead(u, config) ==
    (u.ok /\ IsMap(u.node) /\ IsMap(MapGet(u.node, <<"j","o","b","s">>))) =>
        \A i \in 1..Len(MapGet(u.node, <<"j","o","b","s">>).kv) :
            LET e == MapGet(u.node, <<"j","o","b","s">>).kv[i]
            IN  IsMap(e.val) =>
                    \E j \in 1..Len(config.Jobs) :
                        /\ config.Jobs[j].Name = e.key
                        /\ UsesAndRunFollow(config.Jobs[j].Steps, Items(MapGet(e.val, <<"s","t","e","p","s">>)))

\* C24 amended: no parser checks the steps.  A step that the GitLab, the
\* CircleCI or the Jenkins parser returns never has both uses and run
\* populated; a step that the GitHub parser returns has uses and run as the
\* source step gives them, so it has exactly one of them populated if and
\* only if exactly one of the two keys has a non-empty string in the source
C24_UsesAndRunAsInSource ==
    /\ (\E platform \in ParserPlatforms \ {GitHub} : ParsedBy(platform)) =>
           \A i \in 1..Len(AllSteps(call.parsed.config)) :
               ~(AllSteps(call.parsed.config)[i].Uses # <<>>
                    /\ AllSteps(call.parsed.config)[i].Run # <<>>)
    /\ ParsedBy(GitHub) => GitHubStepsRead(Unmarshal(call.content), call.parsed.config)

\* C24 witness: parseGitHub returned a step with neither uses nor run and a
\* step with both
C24_Witness ==
    /\ ParsedBy(GitHub)
    /\ call.content = GitHubOddSource
    /\ Len(AllSteps(call.parsed.config)) = 2
    /\ AllSteps(call.parsed.config)[1].Uses = <<>> /\ AllSteps(call.parsed.config)[1].Run = <<>>
    /\ AllSteps(call.parsed.config)[2].Uses # <<>> /\ AllSteps(call.parsed.config)[2].Run # <<>>

(***************************************************************************)
(* Properties of the job keys that the generators write (NameSpec)         *)
(***************************************************************************)
\* the line that opens the job of the key in the text of a platform
KeyLine(platform, key) ==
    IF platform = GitHub THEN NL \o <<" "," ">> \o key \o <<":","\n"," "," "," "," ","r","u","n","s","-","o","n",":"," ">>
    ELSE IF platform = GitLab THEN NL \o key \o <<":","\n"," "," ","s","t","a","g","e",":"," ">>
    ELSE IF platform = CircleCI THEN NL \o <<" "," ">> \o key \o <<":","\n"," "," "," "," ","d","o","c","k","e","r",":","\n">>
    ELSE <<" "," "," "," "," "," ","-"," ","j","o","b",":"," ">> \o key \o NL

\* the generator was given a configuration of two jobs of different names
NamesGiven ==
    /\ origin = "names"
    /\ pc = "generated"
    /\ Len(cfg.Jobs) = 2
    /\ cfg.Jobs[1].Name # cfg.Jobs[2].Name

\* C25: for a configuration whose job names are pairwise distinct, the job
\* keys that the GitHub, GitLab, CircleCI and Azure generators write (the
\* names after sanitizeName) are pairwise distinct: no two jobs collapse
\* into the same key of the text
C25_JobKeysDistinct ==
    NamesGiven =>
        /\ sanitizeName(cfg.Jobs[1].Name) # sanitizeName(cfg.Jobs[2].Name)
        /\ \A j \in 1..2 :
               Cardinality(Occurrences(out1, KeyLine(plat, sanitizeName(cfg.Jobs[j].Name)))) = 1

\* C26: where every dependsOn name is the name of a job of the
\* configuration, every name that the GitHub, GitLab, CircleCI and Azure
\* generators write under needs, requires or dependsOn is the key under
\* which the job of that name is written in the same text
C26_DependencyNamesAreJobKeys ==
    (NamesGiven /\ cfg.Jobs[2].DependsOn = <<cfg.Jobs[1].Name>>) =>
        /\ Contains(out1, KeyLine(plat, sanitizeName(cfg.Jobs[1].Name)))
        /\ Depends(plat, <<sanitizeName(cfg.Jobs[1].Name)>>, out1)

\* the keys of the entries of a decoded mapping that are mappings themselves,
\* as they follow one another in the file
DeclaredJobs(kv) ==
    LET jobs == SelectSeq(kv, LAMBDA e : IsMap(e.val))
    IN  [i \in 1..Len(jobs) |-> jobs[i].key]

\* the job names as the input of a platform declares them
DeclaredOrder(platform, u) ==
    IF ~(u.ok /\ IsMap(u.node)) THEN <<>>
    ELSE IF platform = GitLab
    THEN DeclaredJobs(SelectSeq(u.node.kv, LAMBDA e : e.key \notin GitLabReserved))
    ELSE IF IsMap(MapGet(u.node, <<"j","o","b","s">>)) THEN DeclaredJobs(MapGet(u.node, <<"j","o","b","s">>).kv)
    ELSE <<>>

\* C27: the GitHub, GitLab and CircleCI parsers return the jobs in the order
\* in which the input file declares them, on every run
C27_JobsInDeclarationOrder ==
    (\E platform \in YamlPlatforms : ParsedBy(platform)) =>
        [j \in 1..Len(call.parsed.config.Jobs) |-> call.parsed.config.Jobs[j].Name]
            = DeclaredOrder(call.from, Unmarshal(call.content))

\* the last call of the deployer
LastCall == deploys[Len(deploys)]

\* a call has just been made
Calling == Len(deploys') = Len(deploys) + 1

\* the history ends with a success of image x for web on prod that follows a
\* success of image y
EndsWith(entries, y, x) ==
    /\ Len(entries) >= 2
    /\ entries[Len(entries) - 1] = Deployment("web", Prod, y, "success")
    /\ entries[Len(entries)] = Deployment("web", Prod, x, "success")

\* the last call was a successful rollback that reverted image x, the newest
\* success until then, and redeployed image y, which the history now ends with
RevertedTo(x, y) ==
    /\ Len(deploys) >= 1
    /\ LastCall.op = "rollback"
    /\ LastCall.deployed
    /\ LastCall.err = "none"
    /\ LastCall.recorded
    /\ LastCall.image = y
    /\ history.exists /\ history.valid
    /\ EndsWith(history.entries, x, y)

\* C28: after a successful Rollback that reverted image X and redeployed the
\* earlier success Y, a second Rollback run right after it does not redeploy X.
C28_SecondRollbackKeepsOffReverted ==
    [][\A x \in Images : \A y \in Images \ {x} :
          (RevertedTo(x, y) /\ Calling /\ deploys'[Len(deploys')].op = "rollback")
              => ~(deploys'[Len(deploys')].deployed /\ deploys'[Len(deploys')].image = x)]_vars

\* the status that DeployToK8s records for a call
StatusOf(c) == IF c.err = "none" THEN "success" ELSE "failed"

\* the commands up to the one that failed, all three when none did
UpTo(err) ==
    IF err = "none" THEN Kubectl
    ELSE SubSeq(Kubectl, 1, CHOOSE k \in 1..Len(Kubectl) : Kubectl[k] = err)

\* C29: every call of DeployToK8s, direct or through Rollback, that finds the
\* store usable appends exactly one entry to the history, for its application,
\* environment and image; the entry's status is failed exactly when one of the
\* three kubectl commands failed, and the commands after a failed one are not
\* run.
C29_DeployAppendsOneEntry ==
    [][(Calling /\ deploys'[Len(deploys')].deployed /\ deploys'[Len(deploys')].recorded)
          => /\ Load(history).ok
             /\ history' = HistoryOf(Append(Load(history).deployments,
                               Deployment(deploys'[Len(deploys')].app,
                                          deploys'[Len(deploys')].env,
                                          deploys'[Len(deploys')].image,
                                          StatusOf(deploys'[Len(deploys')]))))
             /\ deploys'[Len(deploys')].steps = UpTo(deploys'[Len(deploys')].err)
             /\ (history'.entries[Len(history'.entries)].Status = "failed")
                    <=> (\E k \in 1..Len(Kubectl) : deploys'[Len(deploys')].err = Kubectl[k])
             /\ (history'.entries[Len(history'.entries)].Status = "success")
                    <=> (deploys'[Len(deploys')].err = "none")]_vars

\* C29 witness: a rollback whose second kubectl command failed has left a
\* failed entry at the end of a history that had entries before
C29_Witness ==
    /\ Len(deploys) >= 1
    /\ LastCall.op = "rollback"
    /\ LastCall.deployed
    /\ LastCall.recorded
    /\ LastCall.err = "set image"
    /\ LastCall.steps = <<"apply", "set image">>
    /\ Len(history.entries) >= 3
    /\ history.entries[Len(history.entries)].Status = "failed"

\* no process is inside a call of Add
AllReturned == \A p \in Processes : procs[p].pc = "idle"

\* C30: the history is append-only and loses no entry: once the calls of Add
\* have returned, also those of two processes running at once, Load returns
\* the deployments of the successful calls in the order they were added, after
\* the entries that were there before.
C30_HistoryLosesNoEntry ==
    (AllReturned /\ \E p \in Processes : procs[p].adds > 0) =>
        /\ Load(history).ok
        /\ Load(history).deployments = added
====
